---- MODULE Spec2Model ----
(***************************************************************************)
(* CHIP-8 interpreter core (src/src/chip8/emu.rs): the machine state of    *)
(* struct Emu, its public operations (new, load_rom, reset, execute_cycle, *)
(* update_timers, beeping) and the 35 opcode handlers behind               *)
(* decode_and_execute_opcode.                                              *)
(*                                                                         *)
(* A machine is a record with the fields of struct Emu plus `fault`, the   *)
(* panic (if any) that ended the last operation.  Handlers are operators   *)
(* from machine to machine; the actions apply them to the variables.       *)
(***************************************************************************)
EXTENDS Integers, Sequences, FiniteSets, TLC

\* ------------------------------------------------------------- constants
RAM_SIZE == 4096
PROGRAM_START == 512
MAX_ROM_SIZE == RAM_SIZE - PROGRAM_START
NUM_REGISTERS == 16
STACK_SIZE == 16
NUM_KEYS == 16
GFX_W == 128
GFX_H == 64
\* 0usize.wrapping_sub(1) is usize::MAX; it is written here as its two's-complement
\* reading, -1: any value outside 0..STACK_SIZE-1 indexes the stack out of bounds
USIZE_WRAP_BELOW_ZERO == 0 - 1

FONT_MAP ==
    << 240, 144, 144, 144, 240,   \* 0
        32,  96,  32,  32, 112,   \* 1
       240,  16, 240, 128, 240,   \* 2
       240,  16, 240,  16, 240,   \* 3
       144, 144, 240,  16,  16,   \* 4
       240, 128, 240,  16, 240,   \* 5
       240, 128, 240, 144, 240,   \* 6
       240,  16,  32,  64,  64,   \* 7
       240, 144, 240, 144, 240,   \* 8
       240, 144, 240,  16, 240,   \* 9
       240, 144, 240, 144, 144,   \* A
       224, 144, 224, 144, 224,   \* B
       240, 128, 128, 128, 240,   \* C
       224, 144, 144, 144, 224,   \* D
       240, 128, 240, 128, 240,   \* E
       240, 128, 240, 128, 128 >> \* F

\* ------------------------------------------------------- machine integers
RECURSIVE BitAnd(_, _)
BitAnd(a, b) ==
    IF a = 0 \/ b = 0 THEN 0
    ELSE (a % 2) * (b % 2) + 2 * BitAnd(a \div 2, b \div 2)

RECURSIVE BitOr(_, _)
BitOr(a, b) ==
    IF a = 0 THEN b
    ELSE IF b = 0 THEN a
    ELSE (IF a % 2 = 1 \/ b % 2 = 1 THEN 1 ELSE 0) + 2 * BitOr(a \div 2, b \div 2)

RECURSIVE BitXor(_, _)
BitXor(a, b) ==
    IF a = 0 THEN b
    ELSE IF b = 0 THEN a
    ELSE ((a + b) % 2) + 2 * BitXor(a \div 2, b \div 2)

\* u8::wrapping_add, u8::wrapping_sub, and the u8 shifts (bits leaving the byte are lost)
wrapping_add(a, b) == (a + b) % 256
wrapping_sub(a, b) == (a - b + 256) % 256
shl_u8(a) == (a * 2) % 256
shr_u8(a) == a \div 2

\* ------------------------------------------------------- operand fields
\* (opcode & 0x0f00) >> 8; the handlers that mask with 0x0f02 get the same
\* value, the extra bit being shifted out
OpX(op) == BitAnd(op, 3840) \div 256
OpX0f02(op) == BitAnd(op, 3842) \div 256
\* (opcode & 0x00f0) >> 4
OpY(op) == BitAnd(op, 240) \div 16
\* opcode & 0x000f, opcode & 0x00ff, opcode & 0x0fff
OpN(op) == op % 16
OpNN(op) == op % 256
OpNNN(op) == op % 4096

\* --------------------------------------------------------------- faults
NoFault == [kind |-> "none", arg |-> 0]
Panic(e, kind, arg) == [e EXCEPT !.fault = [kind |-> kind, arg |-> arg]]
Ok(e) == e.fault.kind = "none"

\* ------------------------------------------------------------ the state
VARIABLES
    gfx,      \* [[bool; GFX_H]; GFX_W] as the set of the <<x, y>> with gfx[x][y] = true
    keys,     \* [bool; 16]
    draw,     \* redraw flag
    opcode,   \* the instruction word last fetched
    ram,      \* [u8; RAM_SIZE] as a sequence: the byte at address a is ram[a + 1]
    v,        \* [u8; 16]
    ram_idx,  \* index register, u16
    pc,       \* program counter, u16
    dt,       \* delay timer, u8
    st,       \* sound timer, u8
    stack,    \* [u16; STACK_SIZE]
    sp,       \* next free stack slot, usize
    rom,      \* cached program image, Vec<u8>
    fault,    \* the panic that ended the last operation, or NoFault
    call,     \* history: the public operation performed last
    loads,    \* history: number of load_rom calls made by the host
    calls,    \* history: call sites <<pc, sp>> of the subroutine calls not yet returned from
    loaded,   \* history: the image passed to the last load_rom that succeeded
    loaded_ram, \* history: the memory as the last load_rom that succeeded left it
    sound,    \* history: << >>, or <<k, n>> once a cycle of Fx18 has set the sound timer:
              \* the value k it was set to and the update_timers calls n made since
    before    \* history: the registers, counters and flags as the last operation found them

mvars == <<gfx, keys, draw, opcode, ram, v, ram_idx, pc, dt, st, stack, sp, rom, fault>>
vars == <<gfx, keys, draw, opcode, ram, v, ram_idx, pc, dt, st, stack, sp, rom, fault,
          call, loads, calls, loaded, loaded_ram, sound, before>>

\* the machine as one value
Self ==
    [gfx |-> gfx, keys |-> keys, draw |-> draw, opcode |-> opcode, ram |-> ram,
     v |-> v, ram_idx |-> ram_idx, pc |-> pc, dt |-> dt, st |-> st,
     stack |-> stack, sp |-> sp, rom |-> rom, fault |-> fault]

\* --------------------------------------------------------------- memory
\* self.ram[addr], for addr < RAM_SIZE
ram_load(e, addr) == e.ram[addr + 1]

ZeroBytes(n) == [i \in 1..n |-> 0]
BlankRam == FONT_MAP \o ZeroBytes(RAM_SIZE - Len(FONT_MAP))
\* [[false; GFX_H]; GFX_W]: no pixel is set
BlankGfx == {}

\* self.gfx[x][y], for x < GFX_W and y < GFX_H, and the array with gfx[x][y] = b
gfx_load(e, x, y) == <<x, y>> \in e.gfx
gfx_store(e, x, y, b) == IF b THEN e.gfx \cup {<<x, y>>} ELSE e.gfx \ {<<x, y>>}

\* ------------------------------------------------- construction and ROM
\* mutant of EmuNew: the font copy loop stops one byte early
EmuNew_font_short ==
    [opcode |-> 0,
     ram |-> SubSeq(FONT_MAP, 1, Len(FONT_MAP) - 1) \o ZeroBytes(RAM_SIZE - Len(FONT_MAP) + 1),
     v |-> [i \in 0..(NUM_REGISTERS - 1) |-> 0],
     ram_idx |-> 0,
     pc |-> PROGRAM_START,
     gfx |-> BlankGfx,
     dt |-> 0,
     st |-> 0,
     stack |-> [i \in 0..(STACK_SIZE - 1) |-> 0],
     sp |-> 0,
     keys |-> [i \in 0..(NUM_KEYS - 1) |-> FALSE],
     draw |-> FALSE,
     rom |-> << >>,
     fault |-> [kind |-> "none", arg |-> 0]]

\* Default for Emu / Emu::new
EmuNew ==
    [opcode |-> 0,
     ram |-> BlankRam,
     v |-> [i \in 0..(NUM_REGISTERS - 1) |-> 0],
     ram_idx |-> 0,
     pc |-> PROGRAM_START,
     gfx |-> BlankGfx,
     dt |-> 0,
     st |-> 0,
     stack |-> [i \in 0..(STACK_SIZE - 1) |-> 0],
     sp |-> 0,
     keys |-> [i \in 0..(NUM_KEYS - 1) |-> FALSE],
     draw |-> FALSE,
     rom |-> << >>,
     fault |-> NoFault]

\* mutant of load_rom: the capacity test is >= instead of >
load_rom_rejects_full(e, image) ==
    LET len == Len(image)
    IN  IF len >= RAM_SIZE - PROGRAM_START
        THEN [e EXCEPT !.fault = [kind |-> "rom_too_large", arg |-> len]]
        ELSE [e EXCEPT
                !.rom = image,
                !.ram = SubSeq(e.ram, 1, PROGRAM_START) \o image
                        \o SubSeq(e.ram, PROGRAM_START + len + 1, RAM_SIZE)]

\* mutant of load_rom: the copy loop leaves out the last byte of the image
load_rom_drops_last(e, image) ==
    LET len == Len(image)
        copied == IF len > 0 THEN len - 1 ELSE 0
    IN  IF len > RAM_SIZE - PROGRAM_START
        THEN [e EXCEPT !.fault = [kind |-> "rom_too_large", arg |-> len]]
        ELSE [e EXCEPT
                !.rom = image,
                !.ram = SubSeq(e.ram, 1, PROGRAM_START) \o SubSeq(image, 1, copied)
                        \o SubSeq(e.ram, PROGRAM_START + copied + 1, RAM_SIZE)]

load_rom(e, image) ==
    LET len == Len(image)
    IN  IF len > MAX_ROM_SIZE
        THEN Panic(e, "rom_too_large", len)
        ELSE [e EXCEPT
                !.rom = image,
                !.ram = SubSeq(e.ram, 1, PROGRAM_START) \o image
                        \o SubSeq(e.ram, PROGRAM_START + len + 1, RAM_SIZE)]

\* mutant of reset: the registers and flags are cleared and the image copied
\* again, but the memory array is kept instead of being rebuilt
reset_keeps_ram(e) == load_rom([EmuNew EXCEPT !.ram = e.ram], e.rom)

\* mem::replace(self, Emu::new()) and then load_rom(stale.rom)
reset(e) == load_rom(EmuNew, e.rom)

\* update_timers that decrements both timers unconditionally, wrapping below zero
update_timers_wraps(e) ==
    [e EXCEPT !.dt = wrapping_sub(e.dt, 1), !.st = wrapping_sub(e.st, 1)]

update_timers(e) ==
    [e EXCEPT !.dt = IF e.dt > 0 THEN e.dt - 1 ELSE e.dt,
              !.st = IF e.st > 0 THEN e.st - 1 ELSE e.st]

beeping(e) == e.st > 0
\* 00e0 that clears the pixels and leaves the draw flag as it was
execute_opcode_00e0_keeps_draw(e) ==
    [e EXCEPT !.gfx = BlankGfx, !.pc = e.pc + 2]

\* ------------------------------------------------------ opcode handlers
\* Clear screen.
execute_opcode_00e0(e) ==
    [e EXCEPT !.gfx = BlankGfx,
              !.draw = TRUE,
              !.pc = e.pc + 2]

\* Return from last subroutine.  `self.sp -= 1` with sp = 0 panics when the build
\* checks arithmetic overflow and wraps when it does not; the wrapped sp then
\* indexes the stack out of bounds.  Both outcomes are returned.
execute_opcode_00ee(e) ==
    IF e.sp = 0
    THEN { Panic(e, "subtract_with_overflow", 0),
           Panic([e EXCEPT !.sp = USIZE_WRAP_BELOW_ZERO], "index_out_of_bounds",
                 USIZE_WRAP_BELOW_ZERO) }
    ELSE { [e EXCEPT !.sp = e.sp - 1, !.pc = e.stack[e.sp - 1] + 2] }

\* 1nnn that pushes its address as a call does
execute_opcode_1nnn_pushes(e) ==
    IF e.sp >= STACK_SIZE
    THEN [e EXCEPT !.pc = OpNNN(e.opcode)]
    ELSE [e EXCEPT !.stack[e.sp] = e.pc, !.sp = e.sp + 1, !.pc = OpNNN(e.opcode)]

\* Jump to address nnn.
execute_opcode_1nnn(e) == [e EXCEPT !.pc = OpNNN(e.opcode)]

\* 2nnn that pushes the address of the next instruction in place of its own
execute_opcode_2nnn_pushes_next(e) ==
    IF e.sp >= STACK_SIZE
    THEN Panic(e, "index_out_of_bounds", e.sp)
    ELSE [e EXCEPT !.stack[e.sp] = e.pc + 2, !.sp = e.sp + 1, !.pc = OpNNN(e.opcode)]

\* 2nnn that wraps a full stack around to slot 0 in place of faulting
execute_opcode_2nnn_wraps_slot(e) ==
    [e EXCEPT !.stack[e.sp % STACK_SIZE] = e.pc, !.sp = e.sp + 1, !.pc = OpNNN(e.opcode)]

\* Call subroutine at nnn.
execute_opcode_2nnn(e) ==
    IF e.sp >= STACK_SIZE
    THEN Panic(e, "index_out_of_bounds", e.sp)
    ELSE [e EXCEPT !.stack[e.sp] = e.pc, !.sp = e.sp + 1, !.pc = OpNNN(e.opcode)]

\* Skip the next instruction if vx equals nn.
execute_opcode_3xnn(e) ==
    [e EXCEPT !.pc = e.pc + (IF e.v[OpX(e.opcode)] = OpNN(e.opcode) THEN 4 ELSE 2)]

\* Skip the next instruction if vx does not equal nn.
execute_opcode_4xnn(e) ==
    [e EXCEPT !.pc = e.pc + (IF e.v[OpX(e.opcode)] # OpNN(e.opcode) THEN 4 ELSE 2)]

\* Skip the next instruction if vx equals vy.
execute_opcode_5xy0(e) ==
    [e EXCEPT !.pc = e.pc + (IF e.v[OpX(e.opcode)] = e.v[OpY(e.opcode)] THEN 4 ELSE 2)]

\* Set vx to nn.
execute_opcode_6xnn(e) ==
    [e EXCEPT !.v[OpX(e.opcode)] = OpNN(e.opcode), !.pc = e.pc + 2]

\* 7xnn that reports the carry in the flag register
execute_opcode_7xnn_sets_carry(e) ==
    LET x == OpX(e.opcode)
        v1 == [e.v EXCEPT ![x] = wrapping_add(e.v[x], OpNN(e.opcode))]
    IN  [e EXCEPT !.v = [v1 EXCEPT ![15] = IF e.v[x] + OpNN(e.opcode) > 255 THEN 1 ELSE 0],
                  !.pc = e.pc + 2]

\* Add nn to vx.
execute_opcode_7xnn(e) ==
    [e EXCEPT !.v[OpX(e.opcode)] = wrapping_add(e.v[OpX(e.opcode)], OpNN(e.opcode)),
              !.pc = e.pc + 2]

\* Set vx to the value of vy.
execute_opcode_8xy0(e) ==
    [e EXCEPT !.v[OpX(e.opcode)] = e.v[OpY(e.opcode)], !.pc = e.pc + 2]

\* Set vx to vx OR vy.
execute_opcode_8xy1(e) ==
    [e EXCEPT !.v[OpX(e.opcode)] = BitOr(e.v[OpX(e.opcode)], e.v[OpY(e.opcode)]),
              !.pc = e.pc + 2]

\* Set vx to vx AND vy.
execute_opcode_8xy2(e) ==
    [e EXCEPT !.v[OpX(e.opcode)] = BitAnd(e.v[OpX(e.opcode)], e.v[OpY(e.opcode)]),
              !.pc = e.pc + 2]

\* Set vx to vx XOR vy.
execute_opcode_8xy3(e) ==
    [e EXCEPT !.v[OpX(e.opcode)] = BitXor(e.v[OpX(e.opcode)], e.v[OpY(e.opcode)]),
              !.pc = e.pc + 2]

\* 8xy4 with the carry taken by <= in place of <
execute_opcode_8xy4_carry_on_equal(e) ==
    LET x == OpX(e.opcode)
        y == OpY(e.opcode)
        v1 == [e.v EXCEPT ![x] = wrapping_add(e.v[x], e.v[y])]
    IN  [e EXCEPT !.v = [v1 EXCEPT ![15] = IF v1[x] <= e.v[y] THEN 1 ELSE 0],
                  !.pc = e.pc + 2]

\* Add vy to vx and set vf to 1 if there was a carry, 0 otherwise.  The flag is
\* computed from v[x] as stored and vy as read before, and written after v[x].
execute_opcode_8xy4(e) ==
    LET x == OpX(e.opcode)
        y == OpY(e.opcode)
        vx == e.v[x]
        vy == e.v[y]
        v1 == [e.v EXCEPT ![x] = wrapping_add(vx, vy)]
        carried == v1[x] < vy
    IN  [e EXCEPT !.v = [v1 EXCEPT ![15] = IF carried THEN 1 ELSE 0],
                  !.pc = e.pc + 2]

\* Subtract vy from vx. Set vf to 0 if there was a borrow, 1 otherwise.
execute_opcode_8xy5(e) ==
    LET x == OpX(e.opcode)
        y == OpY(e.opcode)
        vx == e.v[x]
        vy == e.v[y]
        v1 == [e.v EXCEPT ![x] = wrapping_sub(vx, vy)]
        borrowed == vy > vx
    IN  [e EXCEPT !.v = [v1 EXCEPT ![15] = IF borrowed THEN 0 ELSE 1],
                  !.pc = e.pc + 2]

\* Original-interpreter shift right (vx := vy >> 1); no dispatcher arm calls it.
execute_opcode_8xy6_orig_not_used(e) ==
    LET x == OpX(e.opcode)
        y == OpY(e.opcode)
        v1 == [e.v EXCEPT ![15] = BitAnd(e.v[y], 1)]
    IN  [e EXCEPT !.v = [v1 EXCEPT ![x] = shr_u8(v1[y])], !.pc = e.pc + 2]

\* 8xy6 that takes the flag from vx after the shift
execute_opcode_8xy6_flag_after_shift(e) ==
    LET x == OpX(e.opcode)
        v1 == [e.v EXCEPT ![x] = shr_u8(e.v[x])]
    IN  [e EXCEPT !.v = [v1 EXCEPT ![15] = BitAnd(v1[x], 1)], !.pc = e.pc + 2]

\* Shifts vx right by one. Set vf to the least significant bit of vx before the shift.
execute_opcode_8xy6(e) ==
    LET x == OpX(e.opcode)
        v1 == [e.v EXCEPT ![15] = BitAnd(e.v[x], 1)]
    IN  [e EXCEPT !.v = [v1 EXCEPT ![x] = shr_u8(v1[x])], !.pc = e.pc + 2]

\* 8xy7 with the borrow taken by >= in place of >
execute_opcode_8xy7_borrow_on_equal(e) ==
    LET x == OpX(e.opcode)
        y == OpY(e.opcode)
        v1 == [e.v EXCEPT ![x] = wrapping_sub(e.v[y], e.v[x])]
    IN  [e EXCEPT !.v = [v1 EXCEPT ![15] = IF e.v[x] >= e.v[y] THEN 0 ELSE 1],
                  !.pc = e.pc + 2]

\* Set vx to vy minus vx. Set vf to 0 if there was a borrow, 1 otherwise.
execute_opcode_8xy7(e) ==
    LET x == OpX(e.opcode)
        y == OpY(e.opcode)
        vx == e.v[x]
        vy == e.v[y]
        v1 == [e.v EXCEPT ![x] = wrapping_sub(vy, vx)]
        borrowed == vx > vy
    IN  [e EXCEPT !.v = [v1 EXCEPT ![15] = IF borrowed THEN 0 ELSE 1],
                  !.pc = e.pc + 2]

\* Original-interpreter shift left (vx := vy << 1); no dispatcher arm calls it.
execute_opcode_8xye_orig_not_used(e) ==
    LET x == OpX(e.opcode)
        y == OpY(e.opcode)
        v1 == [e.v EXCEPT ![15] = BitAnd(e.v[y], 1)]
    IN  [e EXCEPT !.v = [v1 EXCEPT ![x] = shl_u8(v1[y])], !.pc = e.pc + 2]

\* Shift vx left by one.  The flag is taken with the mask 0x01.
execute_opcode_8xye(e) ==
    LET x == OpX(e.opcode)
        v1 == [e.v EXCEPT ![15] = BitAnd(e.v[x], 1)]
    IN  [e EXCEPT !.v = [v1 EXCEPT ![x] = shl_u8(v1[x])], !.pc = e.pc + 2]

\* Skip the next instruction if vx does not equal vy.
execute_opcode_9xy0(e) ==
    [e EXCEPT !.pc = e.pc + (IF e.v[OpX(e.opcode)] # e.v[OpY(e.opcode)] THEN 4 ELSE 2)]

\* Set ram_idx to the address nnn.
execute_opcode_annn(e) ==
    [e EXCEPT !.ram_idx = OpNNN(e.opcode), !.pc = e.pc + 2]

\* bnnn that reduces the sum to 12 bits
execute_opcode_bnnn_masked(e) == [e EXCEPT !.pc = (OpNNN(e.opcode) + e.v[0]) % 4096]

\* Jump to the address nnn plus v0.
execute_opcode_bnnn(e) == [e EXCEPT !.pc = OpNNN(e.opcode) + e.v[0]]

\* cxnn that stores the random byte without the mask
execute_opcode_cxnn_unmasked(e, r) ==
    [e EXCEPT !.v[OpX(e.opcode)] = r, !.pc = e.pc + 2]

\* Set vx to a random number and nn; r is the byte rand::random::<u8>() returns.
execute_opcode_cxnn(e, r) ==
    [e EXCEPT !.v[OpX(e.opcode)] = BitAnd(r, OpNN(e.opcode)), !.pc = e.pc + 2]

\* dxyn_pixel with the row byte read from its least significant bit
dxyn_pixel_mask_reversed(e, gfx_start_x, gfx_start_y, sprt_row, y_offset, x_offset) ==
    LET gfx_x == (gfx_start_x + x_offset) % GFX_W
        gfx_y == (gfx_start_y + y_offset) % GFX_H
        sprt_pix == BitAnd(sprt_row, 2 ^ x_offset) # 0
        gfx_pix == gfx_load(e, gfx_x, gfx_y)
        gfx_pix_after == (gfx_pix # sprt_pix)
    IN  IF gfx_pix # gfx_pix_after
        THEN IF gfx_pix_after
             THEN [e EXCEPT !.gfx = gfx_store(e, gfx_x, gfx_y, gfx_pix_after), !.draw = TRUE]
             ELSE [e EXCEPT !.gfx = gfx_store(e, gfx_x, gfx_y, gfx_pix_after), !.v[15] = 1]
        ELSE e

\* dxyn_pixel that raises the draw flag on every changed pixel
dxyn_pixel_draw_on_erase(e, gfx_start_x, gfx_start_y, sprt_row, y_offset, x_offset) ==
    LET gfx_x == (gfx_start_x + x_offset) % GFX_W
        gfx_y == (gfx_start_y + y_offset) % GFX_H
        sprt_pix == BitAnd(sprt_row, 2 ^ (7 - x_offset)) # 0
        gfx_pix == gfx_load(e, gfx_x, gfx_y)
        gfx_pix_after == (gfx_pix # sprt_pix)
    IN  IF gfx_pix # gfx_pix_after
        THEN IF gfx_pix_after
             THEN [e EXCEPT !.gfx = gfx_store(e, gfx_x, gfx_y, gfx_pix_after), !.draw = TRUE]
             ELSE [e EXCEPT !.gfx = gfx_store(e, gfx_x, gfx_y, gfx_pix_after), !.draw = TRUE,
                            !.v[15] = 1]
        ELSE e

\* dxyn_pixel that ORs the sprite bit onto the pixel
dxyn_pixel_or(e, gfx_start_x, gfx_start_y, sprt_row, y_offset, x_offset) ==
    LET gfx_x == (gfx_start_x + x_offset) % GFX_W
        gfx_y == (gfx_start_y + y_offset) % GFX_H
        sprt_pix == BitAnd(sprt_row, 2 ^ (7 - x_offset)) # 0
        gfx_pix == gfx_load(e, gfx_x, gfx_y)
        gfx_pix_after == (gfx_pix \/ sprt_pix)
    IN  IF gfx_pix # gfx_pix_after
        THEN [e EXCEPT !.gfx = gfx_store(e, gfx_x, gfx_y, gfx_pix_after), !.draw = TRUE,
                       !.v[15] = 1]
        ELSE e

\* dxyn_pixel that makes the redraw flag follow the pixel written last
dxyn_pixel_draw_follows(e, gfx_start_x, gfx_start_y, sprt_row, y_offset, x_offset) ==
    LET gfx_x == (gfx_start_x + x_offset) % GFX_W
        gfx_y == (gfx_start_y + y_offset) % GFX_H
        mask == 2 ^ (7 - x_offset)
        sprt_pix == BitAnd(sprt_row, mask) # 0
        gfx_pix == gfx_load(e, gfx_x, gfx_y)
        gfx_pix_after == (gfx_pix # sprt_pix)
    IN  IF gfx_pix # gfx_pix_after
        THEN IF gfx_pix_after
             THEN [e EXCEPT !.gfx = gfx_store(e, gfx_x, gfx_y, gfx_pix_after), !.draw = TRUE]
             ELSE [e EXCEPT !.gfx = gfx_store(e, gfx_x, gfx_y, gfx_pix_after), !.v[15] = 1,
                            !.draw = FALSE]
        ELSE e

\* Draw a sprite at position vx, vy with n bytes of sprite data starting at
\* ram_idx.  dxyn_pixel is one pass of the inner loop body (row y_offset, column
\* x_offset) with the row byte already read.
dxyn_pixel(e, gfx_start_x, gfx_start_y, sprt_row, y_offset, x_offset) ==
    LET gfx_x == (gfx_start_x + x_offset) % GFX_W
        gfx_y == (gfx_start_y + y_offset) % GFX_H
        mask == 2 ^ (7 - x_offset)
        sprt_pix == BitAnd(sprt_row, mask) # 0
        gfx_pix == gfx_load(e, gfx_x, gfx_y)
        gfx_pix_after == (gfx_pix # sprt_pix)
    IN  IF gfx_pix # gfx_pix_after
        THEN IF gfx_pix_after
             THEN [e EXCEPT !.gfx = gfx_store(e, gfx_x, gfx_y, gfx_pix_after), !.draw = TRUE]
             ELSE [e EXCEPT !.gfx = gfx_store(e, gfx_x, gfx_y, gfx_pix_after), !.v[15] = 1]
        ELSE e

\* one pass of the outer loop body: the eight passes of the inner loop over row
\* y_offset, in order of x_offset
dxyn_row(e, gfx_start_x, gfx_start_y, sprt_row, y_offset) ==
    LET e1 == dxyn_pixel(e, gfx_start_x, gfx_start_y, sprt_row, y_offset, 0)
        e2 == dxyn_pixel(e1, gfx_start_x, gfx_start_y, sprt_row, y_offset, 1)
        e3 == dxyn_pixel(e2, gfx_start_x, gfx_start_y, sprt_row, y_offset, 2)
        e4 == dxyn_pixel(e3, gfx_start_x, gfx_start_y, sprt_row, y_offset, 3)
        e5 == dxyn_pixel(e4, gfx_start_x, gfx_start_y, sprt_row, y_offset, 4)
        e6 == dxyn_pixel(e5, gfx_start_x, gfx_start_y, sprt_row, y_offset, 5)
        e7 == dxyn_pixel(e6, gfx_start_x, gfx_start_y, sprt_row, y_offset, 6)
    IN  dxyn_pixel(e7, gfx_start_x, gfx_start_y, sprt_row, y_offset, 7)

\* the outer loop of dxyn from row y_offset on; the row byte is read (and its
\* address bounds-checked) when a row starts
RECURSIVE dxyn_from(_, _, _, _, _)
dxyn_from(e, gfx_start_x, gfx_start_y, sprt_h, y_offset) ==
    IF y_offset >= sprt_h
    THEN [e EXCEPT !.pc = e.pc + 2]
    ELSE LET addr == e.ram_idx + y_offset
         IN  IF addr >= RAM_SIZE
             THEN Panic(e, "index_out_of_bounds", addr)
             ELSE dxyn_from(dxyn_row(e, gfx_start_x, gfx_start_y, ram_load(e, addr), y_offset),
                            gfx_start_x, gfx_start_y, sprt_h, y_offset + 1)

\* dxyn that does not zero the flag register before drawing
execute_opcode_dxyn_keeps_flag(e) ==
    dxyn_from(e, e.v[OpX(e.opcode)], e.v[OpY(e.opcode)], OpN(e.opcode), 0)

execute_opcode_dxyn(e) ==
    LET gfx_start_x == e.v[OpX(e.opcode)]
        gfx_start_y == e.v[OpY(e.opcode)]
        sprt_h == OpN(e.opcode)
    IN  dxyn_from([e EXCEPT !.v[15] = 0], gfx_start_x, gfx_start_y, sprt_h, 0)

\* Skip the next instruction if the key stored in vx is pressed.
execute_opcode_ex9e(e) ==
    LET k == e.v[OpX(e.opcode)]
    IN  IF k >= NUM_KEYS
        THEN Panic(e, "index_out_of_bounds", k)
        ELSE [e EXCEPT !.pc = e.pc + (IF e.keys[k] THEN 4 ELSE 2)]

\* exa1 with the test of ex9e
execute_opcode_exa1_not_negated(e) ==
    LET k == e.v[OpX(e.opcode)]
    IN  IF k >= NUM_KEYS
        THEN Panic(e, "index_out_of_bounds", k)
        ELSE [e EXCEPT !.pc = e.pc + (IF e.keys[k] THEN 4 ELSE 2)]

\* Skips the next instruction if the key stored in vx is not pressed.
execute_opcode_exa1(e) ==
    LET k == e.v[OpX(e.opcode)]
    IN  IF k >= NUM_KEYS
        THEN Panic(e, "index_out_of_bounds", k)
        ELSE [e EXCEPT !.pc = e.pc + (IF ~e.keys[k] THEN 4 ELSE 2)]

\* Set vx to the value of the delay timer.
execute_opcode_fx07(e) ==
    [e EXCEPT !.v[OpX(e.opcode)] = e.dt, !.pc = e.pc + 2]

\* Wait for a keypress then store it in vx: the loop over the 16 keys from key i
\* on; every pressed key stores its index and advances pc, the loop has no break.
RECURSIVE fx0a_from(_, _)
fx0a_from(e, i) ==
    IF i >= NUM_KEYS
    THEN e
    ELSE fx0a_from(IF e.keys[i]
                   THEN [e EXCEPT !.v[OpX(e.opcode)] = i, !.pc = e.pc + 2]
                   ELSE e,
                   i + 1)

\* fx0a that releases the keys it has read
execute_opcode_fx0a_consumes(e) ==
    LET f == fx0a_from(e, 0)
    IN  IF f.pc = e.pc THEN f ELSE [f EXCEPT !.keys = [i \in 0..15 |-> FALSE]]

execute_opcode_fx0a(e) == fx0a_from(e, 0)

\* fx15 that sets both timers
execute_opcode_fx15_sets_both(e) ==
    [e EXCEPT !.dt = e.v[OpX(e.opcode)], !.st = e.v[OpX(e.opcode)], !.pc = e.pc + 2]

\* Set the delay timer to vx.
execute_opcode_fx15(e) ==
    [e EXCEPT !.dt = e.v[OpX(e.opcode)], !.pc = e.pc + 2]

\* Set the sound timer to vx.
execute_opcode_fx18(e) ==
    [e EXCEPT !.st = e.v[OpX(e.opcode)], !.pc = e.pc + 2]

\* fx1e that stores the sum without reducing it
execute_opcode_fx1e_unreduced(e) ==
    LET sum == e.ram_idx + e.v[OpX(e.opcode)]
    IN  [e EXCEPT !.v[15] = IF sum > 4095 THEN 1 ELSE 0,
                  !.ram_idx = sum,
                  !.pc = e.pc + 2]

\* fx1e that reports a range overflow from 0xfff on
execute_opcode_fx1e_overflow_at_fff(e) ==
    LET sum == e.ram_idx + e.v[OpX(e.opcode)]
    IN  [e EXCEPT !.v[15] = IF sum >= 4095 THEN 1 ELSE 0,
                  !.ram_idx = sum % (4095 + 1),
                  !.pc = e.pc + 2]

\* Add vx to ram_idx. Set vf to 1 if ram_idx + vx > 0xfff, 0 otherwise.
execute_opcode_fx1e(e) ==
    LET sum == e.ram_idx + e.v[OpX(e.opcode)]
        overflowed == sum > 4095
    IN  [e EXCEPT !.v[15] = IF overflowed THEN 1 ELSE 0,
                  !.ram_idx = sum % (4095 + 1),
                  !.pc = e.pc + 2]

\* fx29 that takes only the low nibble of vx as the character
execute_opcode_fx29_low_nibble(e) ==
    [e EXCEPT !.ram_idx = 0 + (e.v[OpX0f02(e.opcode)] % 16) * 5, !.pc = e.pc + 2]

\* fx29 with glyphs taken to be 4 bytes apart
execute_opcode_fx29_stride_4(e) ==
    [e EXCEPT !.ram_idx = 0 + e.v[OpX0f02(e.opcode)] * 4, !.pc = e.pc + 2]

\* Set ram_idx to the location of the sprite for the character in vx.
execute_opcode_fx29(e) ==
    [e EXCEPT !.ram_idx = 0 + e.v[OpX0f02(e.opcode)] * 5, !.pc = e.pc + 2]

\* an indexed store that truncates the address to 12 bits in place of faulting
ram_store_wraps(e, addr, byte) == [e EXCEPT !.ram[(addr % RAM_SIZE) + 1] = byte]

\* one indexed store self.ram[addr] = byte
ram_store(e, addr, byte) ==
    IF addr >= RAM_SIZE
    THEN Panic(e, "index_out_of_bounds", addr)
    ELSE [e EXCEPT !.ram[addr + 1] = byte]

\* fx33 that stores the ones digit first and the hundreds digit last
execute_opcode_fx33_ones_first(e) ==
    LET vx0 == e.v[OpX0f02(e.opcode)]
        e1 == ram_store(e, e.ram_idx + 0, vx0 % 10)
        e2 == IF Ok(e1) THEN ram_store(e1, e.ram_idx + 1, (vx0 \div 10) % 10) ELSE e1
        e3 == IF Ok(e2) THEN ram_store(e2, e.ram_idx + 2, (vx0 \div 100) % 10) ELSE e2
    IN  IF Ok(e3) THEN [e3 EXCEPT !.pc = e.pc + 2] ELSE e3

\* Store the binary-coded decimal representation of vx at ram_idx, +1, +2;
\* the three stores happen in this order and each is bounds-checked.
execute_opcode_fx33(e) ==
    LET vx0 == e.v[OpX0f02(e.opcode)]
        ones == vx0 % 10
        vx1 == vx0 \div 10
        tens == vx1 % 10
        vx2 == vx1 \div 10
        hundreds == vx2 % 10
        e1 == ram_store(e, e.ram_idx + 0, hundreds)
        e2 == IF Ok(e1) THEN ram_store(e1, e.ram_idx + 1, tens) ELSE e1
        e3 == IF Ok(e2) THEN ram_store(e2, e.ram_idx + 2, ones) ELSE e2
    IN  IF Ok(e3) THEN [e3 EXCEPT !.pc = e.pc + 2] ELSE e3

\* Store v0 to vx in memory starting at address ram_idx: the loop from i on.
RECURSIVE fx55_from(_, _, _)
fx55_from(e, x, i) ==
    IF i >= x + 1
    THEN [e EXCEPT !.pc = e.pc + 2]
    ELSE LET e1 == ram_store(e, e.ram_idx + i, e.v[i])
         IN  IF Ok(e1) THEN fx55_from(e1, x, i + 1) ELSE e1

\* fx55 that checks its last address before it stores anything
execute_opcode_fx55_checks_first(e) ==
    IF e.ram_idx + OpX0f02(e.opcode) >= RAM_SIZE
    THEN Panic(e, "index_out_of_bounds", RAM_SIZE)
    ELSE fx55_from(e, OpX0f02(e.opcode), 0)

execute_opcode_fx55(e) == fx55_from(e, OpX0f02(e.opcode), 0)

\* Fill v0 to vx with values from memory starting at address ram_idx: the loop from i on.
RECURSIVE fx65_from(_, _, _)
fx65_from(e, x, i) ==
    IF i >= x + 1
    THEN [e EXCEPT !.pc = e.pc + 2]
    ELSE IF e.ram_idx + i >= RAM_SIZE
         THEN Panic(e, "index_out_of_bounds", e.ram_idx + i)
         ELSE fx65_from([e EXCEPT !.v[i] = ram_load(e, e.ram_idx + i)], x, i + 1)

\* fx65 that leaves the index register after the last byte read
execute_opcode_fx65_moves_index(e) ==
    LET e1 == fx65_from(e, OpX0f02(e.opcode), 0)
    IN  IF Ok(e1) THEN [e1 EXCEPT !.ram_idx = e.ram_idx + OpX0f02(e.opcode) + 1] ELSE e1

execute_opcode_fx65(e) == fx65_from(e, OpX0f02(e.opcode), 0)

\* ------------------------------------------------- fetch, decode, cycle
\* mutant of unknown_opcode: the word is skipped like a no-op
unknown_opcode_skips(e) == [e EXCEPT !.pc = e.pc + 2]

\* the panic of unknown_opcode carries the word
unknown_opcode(e) == Panic(e, "unknown_opcode", e.opcode)

\* Fetch the opcode to which the program counter is pointing.
fetch_opcode(e) ==
    IF e.pc >= RAM_SIZE
    THEN Panic(e, "index_out_of_bounds", e.pc)
    ELSE IF e.pc + 1 >= RAM_SIZE
         THEN Panic(e, "index_out_of_bounds", e.pc + 1)
         ELSE [e EXCEPT !.opcode = ram_load(e, e.pc) * 256 + ram_load(e, e.pc + 1)]

\* the set of machines one dispatch of e.opcode can end in, r being the byte
\* the random number generator returns if it is asked
decode_and_execute_opcode(e, r) ==
    LET op == e.opcode
        top == BitAnd(op, 61440)
        low4 == BitAnd(op, 15)
        low8 == BitAnd(op, 255)
    IN  CASE top = 0 ->
                (CASE low8 = 224 -> {execute_opcode_00e0(e)}
                   [] low8 = 238 -> execute_opcode_00ee(e)
                   [] OTHER -> {unknown_opcode(e)})
          [] top = 4096 -> {execute_opcode_1nnn(e)}
          [] top = 8192 -> {execute_opcode_2nnn(e)}
          [] top = 12288 -> {execute_opcode_3xnn(e)}
          [] top = 16384 -> {execute_opcode_4xnn(e)}
          [] top = 20480 ->
                (CASE low4 = 0 -> {execute_opcode_5xy0(e)}
                   [] OTHER -> {unknown_opcode(e)})
          [] top = 24576 -> {execute_opcode_6xnn(e)}
          [] top = 28672 -> {execute_opcode_7xnn(e)}
          [] top = 32768 ->
                (CASE low4 = 0 -> {execute_opcode_8xy0(e)}
                   [] low4 = 1 -> {execute_opcode_8xy1(e)}
                   [] low4 = 2 -> {execute_opcode_8xy2(e)}
                   [] low4 = 3 -> {execute_opcode_8xy3(e)}
                   [] low4 = 4 -> {execute_opcode_8xy4(e)}
                   [] low4 = 5 -> {execute_opcode_8xy5(e)}
                   [] low4 = 6 -> {execute_opcode_8xy6(e)}
                   [] low4 = 7 -> {execute_opcode_8xy7(e)}
                   [] low4 = 14 -> {execute_opcode_8xye(e)}
                   [] OTHER -> {unknown_opcode(e)})
          [] top = 36864 -> {execute_opcode_9xy0(e)}
          [] top = 40960 -> {execute_opcode_annn(e)}
          [] top = 45056 -> {execute_opcode_bnnn(e)}
          [] top = 49152 -> {execute_opcode_cxnn(e, r)}
          [] top = 53248 -> {execute_opcode_dxyn(e)}
          [] top = 57344 ->
                (CASE low4 = 14 -> {execute_opcode_ex9e(e)}
                   [] low4 = 1 -> {execute_opcode_exa1(e)}
                   [] OTHER -> {unknown_opcode(e)})
          [] top = 61440 ->
                (CASE low8 = 7 -> {execute_opcode_fx07(e)}
                   [] low8 = 10 -> {execute_opcode_fx0a(e)}
                   [] low8 = 21 -> {execute_opcode_fx15(e)}
                   [] low8 = 24 -> {execute_opcode_fx18(e)}
                   [] low8 = 30 -> {execute_opcode_fx1e(e)}
                   [] low8 = 41 -> {execute_opcode_fx29(e)}
                   [] low8 = 51 -> {execute_opcode_fx33(e)}
                   [] low8 = 85 -> {execute_opcode_fx55(e)}
                   [] low8 = 101 -> {execute_opcode_fx65(e)}
                   [] OTHER -> {unknown_opcode(e)})
          [] OTHER -> {unknown_opcode(e)}

execute_cycle(e, r) ==
    LET f == fetch_opcode(e)
    IN  IF Ok(f) THEN decode_and_execute_opcode(f, r) ELSE {f}

\* the bytes rand::random::<u8>() can return to the coming cycle: any byte when
\* the instruction at pc is Cxnn, and no draw (written 0) otherwise
RandomBytes(e) ==
    LET f == fetch_opcode(e)
    IN  IF Ok(f) /\ BitAnd(f.opcode, 61440) = 49152 THEN 0..255 ELSE {0}

\* the match arms of decode_and_execute_opcode that lead to a handler, each as
\* <<mask, value>>: the arm takes the words w with w & mask = value
DispatchArms ==
    { <<61695, 224>>, <<61695, 238>>,                     \* 0x0000: & 0x00ff = e0, ee
      <<61440, 4096>>, <<61440, 8192>>, <<61440, 12288>>, <<61440, 16384>>,
      <<61455, 20480>>,                                   \* 0x5000: & 0x000f = 0
      <<61440, 24576>>, <<61440, 28672>>,
      <<61455, 32768>>, <<61455, 32769>>, <<61455, 32770>>, <<61455, 32771>>,
      <<61455, 32772>>, <<61455, 32773>>, <<61455, 32774>>, <<61455, 32775>>,
      <<61455, 32782>>,                                   \* 0x8000: & 0x000f = 0..7, e
      <<61440, 36864>>, <<61440, 40960>>, <<61440, 45056>>, <<61440, 49152>>,
      <<61440, 53248>>,
      <<61455, 57358>>, <<61455, 57345>>,                 \* 0xe000: & 0x000f = e, 1
      <<61695, 61447>>, <<61695, 61450>>, <<61695, 61461>>, <<61695, 61464>>,
      <<61695, 61470>>, <<61695, 61481>>, <<61695, 61491>>, <<61695, 61525>>,
      <<61695, 61541>> }                                  \* 0xf000: & 0x00ff

\* the word reaches a handler
Dispatched(w) == \E arm \in DispatchArms : BitAnd(w, arm[1]) = arm[2]

\* the update_timers calls counted after a sound timer was set; further calls are
\* recorded as MaxTicks
MaxTicks == 5

\* ------------------------------------------------------------- actions
Running == fault.kind = "none"

\* the machine variables take the fields of e
Assign(e) ==
    /\ gfx' = e.gfx
    /\ keys' = e.keys
    /\ draw' = e.draw
    /\ opcode' = e.opcode
    /\ ram' = e.ram
    /\ v' = e.v
    /\ ram_idx' = e.ram_idx
    /\ pc' = e.pc
    /\ dt' = e.dt
    /\ st' = e.st
    /\ stack' = e.stack
    /\ sp' = e.sp
    /\ rom' = e.rom
    /\ fault' = e.fault

\* what `before` keeps of a machine
Snapshot(e) ==
    [v |-> e.v, ram_idx |-> e.ram_idx, pc |-> e.pc, sp |-> e.sp, dt |-> e.dt, st |-> e.st,
     keys |-> e.keys, draw |-> e.draw, opcode |-> e.opcode, gfx |-> e.gfx]

\* let mut emu = Emu::new()
Init ==
    /\ gfx = EmuNew.gfx
    /\ keys = EmuNew.keys
    /\ draw = EmuNew.draw
    /\ opcode = EmuNew.opcode
    /\ ram = EmuNew.ram
    /\ v = EmuNew.v
    /\ ram_idx = EmuNew.ram_idx
    /\ pc = EmuNew.pc
    /\ dt = EmuNew.dt
    /\ st = EmuNew.st
    /\ stack = EmuNew.stack
    /\ sp = EmuNew.sp
    /\ rom = EmuNew.rom
    /\ fault = EmuNew.fault
    /\ call = "new"
    /\ loads = 0
    /\ calls = << >>
    /\ loaded = << >>
    /\ loaded_ram = << >>
    /\ sound = << >>
    /\ before = Snapshot(EmuNew)

\* emu.load_rom(image), the host's image drawn from `images`; at most `most` loads
LoadRom(images, most) ==
    /\ Running
    /\ loads < most
    /\ \E image \in images : \E e \in {load_rom(Self, image)} :
          /\ Assign(e)
          /\ loaded' = IF Ok(e) THEN image ELSE loaded
          /\ loaded_ram' = IF Ok(e) THEN e.ram ELSE loaded_ram
    /\ call' = "load_rom"
    /\ loads' = loads + 1
    /\ before' = Snapshot(Self)
    /\ UNCHANGED <<calls, sound>>

IsCall(op) == BitAnd(op, 61440) = 8192
IsReturn(op) == BitAnd(op, 61695) = 238
IsSetSound(op) == BitAnd(op, 61695) = 61464

\* emu.execute_cycle()
ExecuteCycle ==
    /\ Running
    /\ \E r \in RandomBytes(Self) : \E e \in execute_cycle(Self, r) :
          /\ Assign(e)
          /\ calls' = IF Ok(e) /\ IsCall(e.opcode) THEN Append(calls, <<pc, sp>>)
                      ELSE IF Ok(e) /\ IsReturn(e.opcode) /\ Len(calls) > 0
                           THEN SubSeq(calls, 1, Len(calls) - 1)
                           ELSE calls
          /\ sound' = IF Ok(e) /\ IsSetSound(e.opcode) THEN <<e.st, 0>> ELSE sound
    /\ call' = "execute_cycle"
    /\ before' = Snapshot(Self)
    /\ UNCHANGED <<loads, loaded, loaded_ram>>

\* emu.update_timers()
UpdateTimers ==
    /\ Running
    /\ \E e \in {update_timers(Self)} : Assign(e)
    /\ call' = "update_timers"
    /\ sound' = IF sound = << >>
                THEN sound
                ELSE <<sound[1], IF sound[2] < MaxTicks THEN sound[2] + 1 ELSE MaxTicks>>
    /\ before' = Snapshot(Self)
    /\ UNCHANGED <<loads, calls, loaded, loaded_ram>>

\* emu.reset()
Reset ==
    /\ Running
    /\ \E e \in {reset(Self)} : Assign(e)
    /\ call' = "reset"
    /\ calls' = << >>
    /\ sound' = << >>
    /\ before' = Snapshot(Self)
    /\ UNCHANGED <<loads, loaded, loaded_ram>>

\* emu.beeping(): a read through &self, which assigns no field
Beeping ==
    /\ Running
    /\ call' = "beeping"
    /\ before' = Snapshot(Self)
    /\ UNCHANGED <<gfx, keys, draw, opcode, ram, v, ram_idx, pc, dt, st, stack, sp, rom, fault,
                   loads, calls, loaded, loaded_ram, sound>>

\* the host writes the public field keys: emu.keys[k] = b, k drawn from `ks`
HostSetKey(ks) ==
    /\ Running
    /\ \E k \in ks : \E b \in BOOLEAN :
          /\ keys[k] # b
          /\ keys' = [keys EXCEPT ![k] = b]
    /\ call' = "host_keys"
    /\ before' = Snapshot(Self)
    /\ UNCHANGED <<gfx, draw, opcode, ram, v, ram_idx, pc, dt, st, stack, sp, rom, fault,
                   loads, calls, loaded, loaded_ram, sound>>

\* the host consumes the redraw flag through the public field draw: emu.draw = false
HostClearDraw ==
    /\ Running
    /\ draw
    /\ draw' = FALSE
    /\ call' = "host_draw"
    /\ before' = Snapshot(Self)
    /\ UNCHANGED <<gfx, keys, opcode, ram, v, ram_idx, pc, dt, st, stack, sp, rom, fault,
                   loads, calls, loaded, loaded_ram, sound>>

\* ------------------------------------------------------ program images
\* the instruction word with the four nibbles a b c d
W(a, b, c, d) == a * 4096 + b * 256 + c * 16 + d

\* the big-endian byte image of a sequence of instruction words
Image(words) ==
    [i \in 1..(2 * Len(words)) |->
        IF i % 2 = 1 THEN words[(i + 1) \div 2] \div 256 ELSE words[i \div 2] % 256]

\* an image of n bytes that repeats the word 1200 (jump to 0x200)
JumpFill(n) == [i \in 1..n |-> IF i % 2 = 1 THEN 18 ELSE 0]

\* ------------------------------------------- the host loading programs
MaxLoads == 2

\* sets registers, timers, index, display and stack, then stores V0, V1 at
\* 1FF and 200 (one byte below the image, one byte of its first instruction)
\* and returns into a jump-to-self
StateProgram ==
    Image(<< W(6, 0, 0, 2),     \* 200: 6002  V0 = 2
             W(15, 0, 1, 5),    \* 202: F015  dt = V0
             W(15, 0, 1, 8),    \* 204: F018  st = V0
             W(10, 0, 0, 5),    \* 206: A005  I = glyph 1
             W(13, 0, 0, 5),    \* 208: D005  draw 5 rows at (2, 2)
             W(2, 2, 0, 14),    \* 20A: 220E  call 20E
             W(1, 2, 0, 12),    \* 20C: 120C  jump to self
             W(10, 1, 15, 15),  \* 20E: A1FF  I = 1FF
             W(15, 1, 5, 5),    \* 210: F155  store V0, V1 at 1FF, 200
             W(0, 0, 14, 14) >>) \* 212: 00EE  return

\* one instruction, shorter than every other image
ShortProgram == Image(<< W(6, 0, 0, 1) >>)

FullImage == JumpFill(MAX_ROM_SIZE)
OversizeImage == JumpFill(MAX_ROM_SIZE + 1)

LoadImages == {FullImage, OversizeImage, StateProgram, ShortProgram, << >>}

NextLoad ==
    \/ LoadRom(LoadImages, MaxLoads)
    \/ ExecuteCycle
    \/ UpdateTimers
    \/ Reset
    \/ HostSetKey({3})
    \/ HostClearDraw

SpecLoad == Init /\ [][NextLoad]_vars

\* ---------------------------------------------- one word after a prefix
\* the words whose second nibble is 1: all 256 low bytes of every family but C
\* (whose low byte is only a mask), and C with the masks of RandomMasks
RandomMasks == {0, 1, 15, 85, 128, 240, 255}

DecodeWords ==
    { W(a, 1, c, d) : a \in (0..15) \ {12}, c \in 0..15, d \in 0..15 }
        \cup { W(12, 1, 0, 0) + nn : nn \in RandomMasks }

\* V1 = 0x2A and I = 0x2F0, then the word
DecodeProgram(w) == Image(<< W(6, 1, 2, 10), W(10, 2, 15, 0), w >>)

DecodePrograms == { DecodeProgram(w) : w \in DecodeWords }

NextDecode ==
    \/ LoadRom(DecodePrograms, 1)
    \/ ExecuteCycle

SpecDecode == Init /\ [][NextDecode]_vars

\* Add and subtract programs: v[x] := a; v[y] := b; 8xyK, for the three flag-writing
\* arithmetic forms, operand registers that meet each other and the flag register,
\* and bytes on both sides of every carry and borrow edge.
ArithBytes == {0, 1, 2, 3, 127, 128, 129, 253, 254, 255}
ArithRegs == {0, 7, 15}
ArithKinds == {4, 5, 7}

ArithProgram(x, y, a, b, k) ==
    Image(<< W(6, x, a \div 16, a % 16), W(6, y, b \div 16, b % 16), W(8, x, y, k) >>)

ArithPrograms ==
    { ArithProgram(x, y, a, b, k) :
        x \in ArithRegs, y \in ArithRegs, a \in ArithBytes, b \in ArithBytes, k \in ArithKinds }

NextArith ==
    \/ LoadRom(ArithPrograms, 1)
    \/ ExecuteCycle

SpecArith == Init /\ [][NextArith]_vars

\* Display programs: draw n rows of a font glyph at (a, b), then clear; the positions
\* reach the right and bottom edges and beyond them.  ClearOnly clears a display
\* that is already blank.
GfxColumns == {0, 60, 124, 127, 200}
GfxRows == {0, 31, 60, 63, 100}
GfxGlyphs == {0, 75}
GfxHeights == {1, 5}

GfxProgram(a, b, g, n) ==
    Image(<< W(6, 0, a \div 16, a % 16), W(6, 1, b \div 16, b % 16),
             W(10, 0, g \div 16, g % 16), W(13, 0, 1, n), W(0, 0, 14, 0) >>)

ClearOnly == Image(<< W(0, 0, 14, 0) >>)

GfxPrograms ==
    { GfxProgram(a, b, g, n) :
        a \in GfxColumns, b \in GfxRows, g \in GfxGlyphs, n \in GfxHeights } \cup {ClearOnly}

NextGfx ==
    \/ LoadRom(GfxPrograms, 1)
    \/ ExecuteCycle
    \/ HostClearDraw

SpecGfx == Init /\ [][NextGfx]_vars

\* Subroutine programs.
\* TwoCalls: the same subroutine called twice in a row, then a jump to self.
TwoCalls == Image(<< W(2, 2, 0, 6), W(2, 2, 0, 6), W(1, 2, 0, 4), W(0, 0, 14, 14) >>)

\* Nested: three subroutines, each called from the one before.
Nested ==
    Image(<< W(2, 2, 0, 4), W(1, 2, 0, 2), W(2, 2, 0, 8), W(0, 0, 14, 14),
             W(2, 2, 0, 12), W(0, 0, 14, 14), W(0, 0, 14, 14) >>)

\* Recursion(d): the subroutine at 0x204 counts its entries in V0 and calls itself
\* until V0 = d, so d calls are open at the deepest point.
Recursion(d) ==
    Image(<< W(2, 2, 0, 4), W(1, 2, 0, 2), W(7, 0, 0, 1), W(3, 0, d \div 16, d % 16),
             W(2, 2, 0, 4), W(0, 0, 14, 14) >>)

\* StrayReturn: a return with no call open.
StrayReturn == Image(<< W(0, 0, 14, 14) >>)

FlowPrograms ==
    {TwoCalls, Nested, StrayReturn} \cup { Recursion(d) : d \in {1, 2, STACK_SIZE, STACK_SIZE + 1} }

NextFlow ==
    \/ LoadRom(FlowPrograms, 1)
    \/ ExecuteCycle

SpecFlow == Init /\ [][NextFlow]_vars

\* Skip programs: v[x] := a; v[y] := b; then one skip instruction.  The bytes are
\* keypad indices and bytes beyond the keypad; the host presses and releases keys
\* 3 and 15 at any moment.
SkipBytes == {0, 3, 15, 255}
SkipRegs == {0, 7, 15}

SkipWords(x, y, b) ==
    { W(3, x, b \div 16, b % 16), W(4, x, b \div 16, b % 16), W(5, x, y, 0), W(9, x, y, 0),
      W(14, x, 9, 14), W(14, x, 10, 1) }

SkipProgram(x, y, a, b, w) ==
    Image(<< W(6, x, a \div 16, a % 16), W(6, y, b \div 16, b % 16), w >>)

SkipPrograms ==
    UNION { { SkipProgram(x, y, a, b, w) : w \in SkipWords(x, y, b) } :
              x \in SkipRegs, y \in SkipRegs, a \in SkipBytes, b \in SkipBytes }

NextSkip ==
    \/ LoadRom(SkipPrograms, 1)
    \/ ExecuteCycle
    \/ HostSetKey({3, 15})

SpecSkip == Init /\ [][NextSkip]_vars
\* Sprite programs: v[x] := a; v[y] := b; I := g; the same Dxyn three times in a row;
\* then I := the companion sprite of g and Dxyn once more over what the third draw
\* left.  Origins lie inside the display, across its right and bottom edges, and
\* beyond them; the operand registers include the flag register and one register
\* used for both coordinates; the sprites are two font glyphs, the program's own
\* bytes and zero bytes; heights run from 0 to the largest.  The host consumes the
\* draw flag at any moment.
SpriteColumns == {3, 124, 255}
SpriteRows == {2, 60, 255}
SpriteRegs == {<<0, 1>>, <<15, 1>>, <<0, 15>>, <<2, 2>>}
SpriteHeights == {0, 1, 5, 15}
SpriteAt == {0, 75, 512, 768}

Companion(g) == IF g = 0 THEN 75 ELSE 0

SpriteProgram(x, y, a, b, g, n) ==
    << W(6, x, a \div 16, a % 16), W(6, y, b \div 16, b % 16), 40960 + g,
       W(13, x, y, n), W(13, x, y, n), W(13, x, y, n), 40960 + Companion(g), W(13, x, y, n) >>

SpritePrograms ==
    { Image(SpriteProgram(xy[1], xy[2], a, b, g, n)) :
        xy \in SpriteRegs, a \in SpriteColumns, b \in SpriteRows, g \in SpriteAt,
        n \in SpriteHeights }

NextDraw ==
    \/ LoadRom(SpritePrograms, 1)
    \/ ExecuteCycle
    \/ HostClearDraw

SpecDraw == Init /\ [][NextDraw]_vars
\* Glyph programs: V1 := 0; v[x] := d; I := glyph of v[x]; draw 5 rows at (V1, V1),
\* for every hex digit d and three registers x.
GlyphRegs == {0, 2, 15}

GlyphProgram(x, d) == Image(<< W(6, 1, 0, 0), W(6, x, 0, d), W(15, x, 2, 9), W(13, 1, 1, 5) >>)

GlyphPrograms == { GlyphProgram(x, d) : x \in GlyphRegs, d \in 0..15 }

NextFont ==
    \/ LoadRom(GlyphPrograms, 1)
    \/ ExecuteCycle

SpecFont == Init /\ [][NextFont]_vars
\* Decimal programs: v[x] := b; I := a; Fx33, for every byte b.  The addresses are the
\* end of the font, the Fx33 instruction itself, the last address with three bytes
\* ahead of it, and the one after that.
BcdRegs == {0, 15}
BcdAt == {78, 516, 4093, 4094}

BcdProgram(x, b, a) == Image(<< W(6, x, b \div 16, b % 16), 40960 + a, W(15, x, 3, 3) >>)

BcdPrograms == { BcdProgram(x, b, a) : x \in BcdRegs, b \in 0..255, a \in BcdAt }

NextBcd ==
    \/ LoadRom(BcdPrograms, 1)
    \/ ExecuteCycle

SpecBcd == Init /\ [][NextBcd]_vars
\* Block programs: v[i] := its byte of a pattern, for all sixteen registers; I := a;
\* Fx55; V0, Vx and VF overwritten; Fx65.  The blocks are one register, four, and
\* all sixteen; they lie in free memory, over the start of the program, against the
\* end of memory, and one byte past it.
BlockTop == {0, 3, 15}
BlockPatterns == {1, 2}

PatternByte(p, i) == IF p = 1 THEN 17 * i ELSE 254 - 3 * i

BlockAt(x) == {512, 768, 4095 - x, 4096 - x}

BlockProgram(x, p, a) ==
    Image([i \in 1..16 |-> W(6, i - 1, PatternByte(p, i - 1) \div 16, PatternByte(p, i - 1) % 16)]
          \o << 40960 + a, W(15, x, 5, 5),
                W(6, 0, 15, 15), W(6, x, 0, 1), W(6, 15, 5, 5),
                W(15, x, 6, 5) >>)

BlockPrograms ==
    UNION { { BlockProgram(x, p, a) : a \in BlockAt(x) } : x \in BlockTop, p \in BlockPatterns }

NextBlock ==
    \/ LoadRom(BlockPrograms, 1)
    \/ ExecuteCycle

SpecBlock == Init /\ [][NextBlock]_vars
\* Timer programs: dt := a; st := b; then a jump to itself, while the host ticks the
\* timers and asks for the beep at any moment.
TimerStarts == {<<0, 0>>, <<1, 0>>, <<0, 1>>, <<3, 2>>, <<2, 3>>, <<255, 0>>, <<0, 255>>}

TimerProgram(a, b) ==
    Image(<< W(6, 0, a \div 16, a % 16), W(15, 0, 1, 5), W(6, 0, b \div 16, b % 16),
             W(15, 0, 1, 8), W(1, 2, 0, 8) >>)

TimerPrograms == { TimerProgram(ab[1], ab[2]) : ab \in TimerStarts }

NextTimers ==
    \/ LoadRom(TimerPrograms, 1)
    \/ ExecuteCycle
    \/ UpdateTimers
    \/ Beeping

SpecTimers == Init /\ [][NextTimers]_vars
\* Key-wait programs: Fx0A, three register loads, and a jump to itself, while the
\* host presses and releases keys 0, 3 and 15 at any moment.
WaitRegs == {0, 5, 15}

WaitProgram(x) ==
    Image(<< W(15, x, 0, 10), W(6, 1, 0, 1), W(6, 2, 0, 2), W(6, 3, 0, 3), W(1, 2, 0, 8) >>)

WaitPrograms == { WaitProgram(x) : x \in WaitRegs }

NextKeys ==
    \/ LoadRom(WaitPrograms, 1)
    \/ ExecuteCycle
    \/ HostSetKey({0, 3, 15})

SpecKeys == Init /\ [][NextKeys]_vars

\* Shift programs: v[x] := a; v[y] := b; then 8xy6 or 8xyE.
ShiftBytes == {1, 2, 128, 255}
ShiftRegs == {0, 1, 15}

ShiftProgram(x, y, a, b, k) ==
    Image(<< W(6, x, a \div 16, a % 16), W(6, y, b \div 16, b % 16), W(8, x, y, k) >>)

ShiftPrograms ==
    { ShiftProgram(x, y, a, b, k) :
        x \in ShiftRegs, y \in ShiftRegs, a \in ShiftBytes, b \in ShiftBytes, k \in {6, 14} }

NextShift ==
    \/ LoadRom(ShiftPrograms, 1)
    \/ ExecuteCycle

SpecShift == Init /\ [][NextShift]_vars
\* Index programs: VF := 7; v[x] := b; I := a; Fx1E, with sums on both sides of 0xFFF.
IndexRegs == {0, 7, 15}
IndexBytes == {0, 1, 2, 254, 255}
IndexAt == {0, 1, 3840, 3841, 3842, 4093, 4094, 4095}

IndexProgram(x, b, a) ==
    Image(<< W(6, 15, 0, 7), W(6, x, b \div 16, b % 16), 40960 + a, W(15, x, 1, 14) >>)

IndexPrograms == { IndexProgram(x, b, a) : x \in IndexRegs, b \in IndexBytes, a \in IndexAt }

NextIndex ==
    \/ LoadRom(IndexPrograms, 1)
    \/ ExecuteCycle

SpecIndex == Init /\ [][NextIndex]_vars
\* Edge programs: V0 := 0x81; V1 := 0xFF; V2 := 0x3C; I := a, one of the last four
\* addresses; then one instruction that reads or writes a run of bytes from I on:
\* a draw of 1, 5 or 15 rows, Fx33, or a block store or load of 2, 3 or 16 registers.
EdgeAt == {4092, 4093, 4094, 4095}

EdgeWords ==
    { W(13, 0, 1, 1), W(13, 0, 1, 5), W(13, 0, 1, 15), W(15, 0, 3, 3),
      W(15, 1, 5, 5), W(15, 2, 5, 5), W(15, 15, 5, 5),
      W(15, 1, 6, 5), W(15, 2, 6, 5), W(15, 15, 6, 5) }

EdgeProgram(a, w) ==
    Image(<< W(6, 0, 8, 1), W(6, 1, 15, 15), W(6, 2, 3, 12), 40960 + a, w >>)

EdgePrograms == { EdgeProgram(a, w) : a \in EdgeAt, w \in EdgeWords }

NextEdge ==
    \/ LoadRom(EdgePrograms, 1)
    \/ ExecuteCycle

SpecEdge == Init /\ [][NextEdge]_vars
\* Add-immediate programs: VF := f; v[x] := a; 7xnn.
AddImmRegs == {0, 7, 14, 15}
AddImmFlags == {0, 1, 77}
AddImmBytes == {0, 1, 127, 128, 255}

AddImmProgram(x, f, a, nn) ==
    Image(<< W(6, 15, f \div 16, f % 16), W(6, x, a \div 16, a % 16), 28672 + 256 * x + nn >>)

AddImmPrograms ==
    { AddImmProgram(x, f, a, nn) :
        x \in AddImmRegs, f \in AddImmFlags, a \in AddImmBytes, nn \in AddImmBytes }

NextAddImm ==
    \/ LoadRom(AddImmPrograms, 1)
    \/ ExecuteCycle

SpecAddImm == Init /\ [][NextAddImm]_vars

\* Offset-jump programs: V0 := a; Bnnn, with targets inside the program, at the top
\* of memory and past it.
OffsetBytes == {0, 1, 2, 254, 255}
OffsetTargets == {0, 1, 514, 3841, 3842, 4094, 4095}

OffsetProgram(a, nnn) == Image(<< W(6, 0, a \div 16, a % 16), 45056 + nnn >>)

OffsetPrograms == { OffsetProgram(a, nnn) : a \in OffsetBytes, nnn \in OffsetTargets }

NextOffset ==
    \/ LoadRom(OffsetPrograms, 1)
    \/ ExecuteCycle

SpecOffset == Init /\ [][NextOffset]_vars

\* Random programs: v[x] := 0xFF; Cxnn, for every mask nn on V0 and the masks of
\* RandomMasks on VF.
RandomProgram(x, nn) == Image(<< W(6, x, 15, 15), 49152 + 256 * x + nn >>)

RandomPrograms ==
    { RandomProgram(0, nn) : nn \in 0..255 } \cup { RandomProgram(15, nn) : nn \in RandomMasks }

NextRandom ==
    \/ LoadRom(RandomPrograms, 1)
    \/ ExecuteCycle

SpecRandom == Init /\ [][NextRandom]_vars

\* Glyph-address programs: v[x] := b; Fx29, for every register and every byte.
GlyphAddrProgram(x, b) == Image(<< W(6, x, b \div 16, b % 16), W(15, x, 2, 9) >>)

GlyphAddrPrograms == { GlyphAddrProgram(x, b) : x \in 0..15, b \in 0..255 }

NextGlyphAddr ==
    \/ LoadRom(GlyphAddrPrograms, 1)
    \/ ExecuteCycle

SpecGlyphAddr == Init /\ [][NextGlyphAddr]_vars

\* Sound programs: V0 := k; F018; then a loop that sets the delay timer to 2 and
\* reads it back, while the host ticks the timers and asks for the beep at any moment.
SoundStarts == {0, 1, 2, 3, 255}

SoundProgram(k) ==
    Image(<< W(6, 0, k \div 16, k % 16),   \* 200: V0 = k
             W(15, 0, 1, 8),               \* 202: st = V0
             W(6, 1, 0, 2),                \* 204: V1 = 2
             W(15, 1, 1, 5),               \* 206: dt = V1
             W(15, 2, 0, 7),               \* 208: V2 = dt
             W(1, 2, 0, 4) >>)             \* 20A: jump to 204

SoundPrograms == { SoundProgram(k) : k \in SoundStarts }

NextSound ==
    \/ LoadRom(SoundPrograms, 1)
    \/ ExecuteCycle
    \/ UpdateTimers
    \/ Beeping

SpecSound == Init /\ [][NextSound]_vars

\* Keypad programs: V1 := 3; I := 0x300; then one word for every arm of the
\* dispatcher, while the host presses and releases keys 3 and 15 and ticks the timers.
KeypadWords ==
    { W(0, 0, 14, 0), W(0, 0, 14, 14), W(1, 2, 0, 8), W(2, 2, 0, 8),
      W(3, 1, 0, 3), W(4, 1, 0, 3), W(5, 1, 2, 0), W(6, 1, 7, 7), W(7, 1, 0, 1),
      W(9, 1, 2, 0), W(10, 1, 2, 3), W(11, 3, 0, 0), W(12, 1, 0, 15), W(13, 1, 2, 5),
      W(14, 1, 9, 14), W(14, 1, 10, 1),
      W(15, 1, 0, 7), W(15, 1, 0, 10), W(15, 1, 1, 5), W(15, 1, 1, 8), W(15, 1, 1, 14),
      W(15, 1, 2, 9), W(15, 1, 3, 3), W(15, 1, 5, 5), W(15, 1, 6, 5) }
        \cup { W(8, 1, 2, k) : k \in {0, 1, 2, 3, 4, 5, 6, 7, 14} }

KeypadProgram(w) == Image(<< W(6, 1, 0, 3), W(10, 3, 0, 0), w >>)

KeypadPrograms == { KeypadProgram(w) : w \in KeypadWords }

NextKeypad ==
    \/ LoadRom(KeypadPrograms, 1)
    \/ ExecuteCycle
    \/ UpdateTimers
    \/ HostSetKey({3, 15})

SpecKeypad == Init /\ [][NextKeypad]_vars

\* Index-range programs: V0 := b; I := a; two index additions, the glyph address of
\* V0, a third addition and a block store, while the host ticks the timers and
\* resets at any moment.
IndexRangeProgram(a, b) ==
    Image(<< W(6, 0, b \div 16, b % 16), 40960 + a, W(15, 0, 1, 14), W(15, 0, 1, 14),
             W(15, 0, 2, 9), W(15, 0, 1, 14), W(15, 0, 5, 5) >>)

IndexRangePrograms == { IndexRangeProgram(a, b) : a \in IndexAt, b \in IndexBytes }

NextIndexRange ==
    \/ LoadRom(IndexRangePrograms, 1)
    \/ ExecuteCycle
    \/ UpdateTimers
    \/ Reset

SpecIndexRange == Init /\ [][NextIndexRange]_vars

\* Redraw-flag programs: clear the display (which sets the flag), V1 := 3, I := 0, draw
\* glyph 0 at (3, 3), then one word for every arm of the dispatcher or the same draw
\* again, while the host consumes the flag, ticks the timers and resets at any moment.
DrawFlagProgram(w) ==
    Image(<< W(0, 0, 14, 0), W(6, 1, 0, 3), W(10, 0, 0, 0), W(13, 1, 1, 5), w >>)

DrawFlagPrograms == { DrawFlagProgram(w) : w \in KeypadWords \cup {W(13, 1, 1, 5)} }

NextDrawFlag ==
    \/ LoadRom(DrawFlagPrograms, 1)
    \/ ExecuteCycle
    \/ UpdateTimers
    \/ Reset
    \/ HostClearDraw

SpecDrawFlag == Init /\ [][NextDrawFlag]_vars

\* Flag-destination programs: VF := a; Vy := b; I := 0xFFE; then one of the flag-writing
\* instructions with x = 0xF: 8Fy4, 8Fy5, 8Fy6, 8Fy7, 8FyE or FF1E.
FlagDestBytes == {0, 1, 2, 3, 128, 129, 255}
FlagDestRegs == {0, 15}
FlagDestWords(y) == { W(8, 15, y, k) : k \in {4, 5, 6, 7, 14} } \cup { W(15, 15, 1, 14) }

FlagDestProgram(y, a, b, w) ==
    Image(<< W(6, 15, a \div 16, a % 16), W(6, y, b \div 16, b % 16), W(10, 15, 15, 14), w >>)

FlagDestPrograms ==
    UNION { { FlagDestProgram(y, a, b, w) : a \in FlagDestBytes, b \in FlagDestBytes,
                                            w \in FlagDestWords(y) } :
            y \in FlagDestRegs }

NextFlagDest ==
    \/ LoadRom(FlagDestPrograms, 1)
    \/ ExecuteCycle

SpecFlagDest == Init /\ [][NextFlagDest]_vars

\* Partial-effect programs: V0 := 0x81; V1 := 0xFF; V2 := 0x3C; VF := 7; I := a; a
\* first word that either stores V0..V2 at I or does nothing to memory; then one of
\* the words of EdgeWords.
PartialSetups == { W(15, 2, 5, 5), W(6, 3, 0, 0) }

PartialProgram(a, s, w) ==
    Image(<< W(6, 0, 8, 1), W(6, 1, 15, 15), W(6, 2, 3, 12), W(6, 15, 0, 7), 40960 + a, s, w >>)

PartialPrograms ==
    { PartialProgram(a, s, w) : a \in EdgeAt, s \in PartialSetups, w \in EdgeWords }

NextPartial ==
    \/ LoadRom(PartialPrograms, 1)
    \/ ExecuteCycle

SpecPartial == Init /\ [][NextPartial]_vars

\* ===================================================== claims C1 .. C4
\* registers, index, timers, stack, display, keys and draw flag zero/false,
\* pc = 0x200, sp = 0
ZeroedState ==
    /\ \A i \in 0..15 : v[i] = 0 /\ stack[i] = 0 /\ keys[i] = FALSE
    /\ DOMAIN v = 0..15 /\ DOMAIN stack = 0..15 /\ DOMAIN keys = 0..15
    /\ ram_idx = 0 /\ dt = 0 /\ st = 0
    /\ \A x \in 0..127 : \A y \in 0..63 : <<x, y>> \notin gfx
    /\ draw = FALSE
    /\ pc = 512
    /\ sp = 0

\* C1: immediately after Emu::new(), memory bytes 0..79 are the font table and
\* every other byte is 0, all registers, the index register, both timers, the
\* stack, the display, the keys and the draw flag are zero/false, pc = 0x200
\* and sp = 0.
C1_FreshMachine ==
    call = "new" =>
        /\ Len(ram) = 4096
        /\ \A a \in 0..79 : ram[a + 1] = FONT_MAP[a + 1]
        /\ \A a \in 80..4095 : ram[a + 1] = 0
        /\ ZeroedState

C1_Witness == call = "new" /\ ram[80] = 128 /\ ram[81] = 0 /\ pc = 512

\* C2: load_rom with an image longer than 3584 bytes ends in the capacity
\* panic and leaves memory, cached ROM, registers, pc, stack, timers and
\* display as they were; an image of exactly 3584 bytes is accepted.
C2_OversizeRejected ==
    [][call' = "load_rom" =>
          \A image \in LoadImages :
             LoadRom({image}, MaxLoads) =>
                /\ Len(image) > 3584 =>
                      /\ fault'.kind = "rom_too_large"
                      /\ UNCHANGED <<ram, rom, v, ram_idx, pc, stack, sp, dt, st, gfx,
                                     keys, draw, opcode>>
                /\ Len(image) = 3584 => fault'.kind = "none" /\ rom' = image]_vars

\* an oversize load refused on a machine that holds an earlier image and has run
C2_Witness ==
    /\ call = "load_rom"
    /\ fault.kind = "rom_too_large"
    /\ fault.arg = 3585
    /\ rom = StateProgram
    /\ pc = 524
    /\ ram[512] = 2

\* C3: a successful load_rom(R) makes memory[0x200 + i] = R[i] for i < len(R),
\* caches R, and changes nothing else: every other memory byte (the font
\* region included), registers, index, pc, sp, stack, timers, display, draw
\* flag and keys are unchanged.
C3_LoadCopiesAndFrames ==
    [][call' = "load_rom" =>
          \A image \in LoadImages :
             (Len(image) <= 3584 /\ LoadRom({image}, MaxLoads)) =>
                /\ fault'.kind = "none"
                /\ rom' = image
                /\ Len(ram') = 4096
                /\ SubSeq(ram', 512 + 1, 512 + Len(image)) = image
                /\ SubSeq(ram', 1, 512) = SubSeq(ram, 1, 512)
                /\ SubSeq(ram', 512 + Len(image) + 1, 4096)
                      = SubSeq(ram, 512 + Len(image) + 1, 4096)
                /\ UNCHANGED <<v, ram_idx, pc, sp, stack, dt, st, gfx, draw, keys>>]_vars

\* a second image loaded over a machine that has run the first one
C3_Witness ==
    /\ call = "load_rom"
    /\ fault.kind = "none"
    /\ loads = 2
    /\ rom = ShortProgram
    /\ ram[513] = 96 /\ ram[514] = 1 /\ ram[512] = 2 /\ ram[515] = 240
    /\ pc = 524 /\ v[0] = 2 /\ dt = 2 /\ <<4, 2>> \in gfx /\ stack[0] = 522

\* C4: after load_rom(R) on a fresh machine and any sequence of cycles, timer
\* ticks and keypad writes, reset() gives the state of Emu::new() followed by
\* load_rom(R): everything zero/false, pc = 0x200, memory = font table plus
\* the original bytes of R.
C4_ResetRestoresLoaded ==
    (call = "reset" /\ loads = 1) =>
        /\ ZeroedState
        /\ opcode = 0
        /\ rom = loaded
        /\ fault.kind = "none"
        /\ ram = FONT_MAP \o ZeroBytes(512 - 80) \o loaded
                   \o ZeroBytes(4096 - 512 - Len(loaded))

\* a reset of a machine whose program had run to its end and stored below and
\* into its own image
C4_Witness ==
    /\ call = "reset"
    /\ loads = 1
    /\ loaded = StateProgram
    /\ before.pc = 524 /\ before.v[0] = 2 /\ before.dt = 1 /\ before.keys[3]
    /\ ram[512] = 0 /\ ram[513] = 96

\* ================================================================== C5
\* the word execute_cycle fetches in the current state
WordAtPc == ram[pc + 1] * 256 + ram[pc + 2]

\* C5: when the fetched word matches no arm of the dispatcher, execute_cycle
\* ends in the unknown-instruction panic carrying that word, and pc,
\* registers, index, memory, stack, sp, timers and display are unchanged; the
\* panic is raised for no other word.
C5_UnknownIsFatal ==
    [][(call' = "execute_cycle" /\ pc + 1 < 4096) =>
          /\ ~Dispatched(WordAtPc) =>
                /\ fault' = [kind |-> "unknown_opcode", arg |-> WordAtPc]
                /\ UNCHANGED <<pc, v, ram_idx, ram, stack, sp, dt, st, gfx, draw, keys>>
          /\ fault'.kind = "unknown_opcode" =>
                ~Dispatched(WordAtPc) /\ fault'.arg = WordAtPc]_vars

\* 0x8108 (family 8, low nibble 8) met with V1 and I set
C5_Witness ==
    /\ call = "execute_cycle"
    /\ fault = [kind |-> "unknown_opcode", arg |-> 33032]
    /\ opcode = 33032
    /\ pc = 516 /\ v[1] = 42 /\ ram_idx = 752

\* ---------------------------------------------------------------- C6, C7
\* the last operation was a cycle that executed the 8xyK form without a fault
Executed8(k) ==
    /\ call = "execute_cycle"
    /\ fault.kind = "none"
    /\ opcode \div 4096 = 8
    /\ opcode % 16 = k

\* C6: for registers x # 0xF and any y, and the bytes vx, vy they held, 8xy4 leaves
\* Vx = (vx + vy) mod 256, VF = 1 exactly when vx + vy > 255 and 0 otherwise, and
\* pc advanced by 2.
C6_AddWithCarry ==
    (Executed8(4) /\ OpX(opcode) # 15) =>
        LET x == OpX(opcode)
            y == OpY(opcode)
            sum == before.v[x] + before.v[y]
        IN  /\ v[x] = sum % 256
            /\ v[15] = (IF sum > 255 THEN 1 ELSE 0)
            /\ pc = before.pc + 2

\* 0xFF + 0x03 gives 0x02 with VF = 1
C6_Witness ==
    /\ Executed8(4)
    /\ opcode = W(8, 0, 7, 4)
    /\ before.v[0] = 255 /\ before.v[7] = 3
    /\ v[0] = 2 /\ v[15] = 1 /\ pc = 518

\* what 8xy5 and 8xy7 leave in Vx, VF and pc, for x # 0xF
SubtractResults ==
    /\ (Executed8(5) /\ OpX(opcode) # 15) =>
          LET vx == before.v[OpX(opcode)]
              vy == before.v[OpY(opcode)]
          IN  /\ v[OpX(opcode)] = (vx - vy) % 256
              /\ v[15] = (IF vy > vx THEN 0 ELSE 1)
              /\ pc = before.pc + 2
    /\ (Executed8(7) /\ OpX(opcode) # 15) =>
          LET vx == before.v[OpX(opcode)]
              vy == before.v[OpY(opcode)]
          IN  /\ v[OpX(opcode)] = (vy - vx) % 256
              /\ v[15] = (IF vx > vy THEN 0 ELSE 1)
              /\ pc = before.pc + 2

\* C7 as stated: for x # 0xF, 8xy5 gives Vx = (vx - vy) mod 256 with VF = 0 exactly on
\* vy > vx, 8xy7 gives Vx = (vy - vx) mod 256 with VF = 0 exactly on vx > vy, pc
\* advances by 2, and Vy is unchanged whenever y # x.
C7_AsStated ==
    /\ SubtractResults
    /\ ((Executed8(5) \/ Executed8(7)) /\ OpX(opcode) # 15 /\ OpY(opcode) # OpX(opcode)) =>
          v[OpY(opcode)] = before.v[OpY(opcode)]

\* C7: for x # 0xF, 8xy5 gives Vx = (vx - vy) mod 256 with VF = 0 exactly on vy > vx,
\* 8xy7 gives Vx = (vy - vx) mod 256 with VF = 0 exactly on vx > vy, pc advances by 2,
\* and Vy is unchanged whenever y # x and y # 0xF; with y = 0xF the register Vy is VF
\* and holds the flag afterwards.
C7_SubtractWithBorrow ==
    /\ SubtractResults
    /\ ((Executed8(5) \/ Executed8(7)) /\ OpX(opcode) # 15 /\ OpY(opcode) # OpX(opcode)) =>
          IF OpY(opcode) = 15
          THEN v[15] \in {0, 1}
          ELSE v[OpY(opcode)] = before.v[OpY(opcode)]

\* 8F07 with V0 = 1 and VF = 3: V0 = 3 - 1, no borrow, and VF = 1 replaces the 3
C7_Witness ==
    /\ Executed8(7)
    /\ opcode = W(8, 0, 15, 7)
    /\ before.v[0] = 1 /\ before.v[15] = 3
    /\ v[0] = 2 /\ v[15] = 1 /\ pc = 518

\* -------------------------------------------------------------------- C8
\* C8: after 00E0 has executed, from whatever the display held, every pixel of the
\* display buffer is unset, the draw flag is true, and pc has advanced by exactly 2.
C8_ClearDisplay ==
    (call = "execute_cycle" /\ fault.kind = "none" /\ opcode = W(0, 0, 14, 0)) =>
        /\ \A x \in 0..(GFX_W - 1) : \A y \in 0..(GFX_H - 1) : ~gfx_load(Self, x, y)
        /\ draw = TRUE
        /\ pc = before.pc + 2

\* 00E0 on a display with lit pixels whose draw flag the host had consumed
C8_Witness ==
    /\ call = "execute_cycle" /\ fault.kind = "none" /\ opcode = W(0, 0, 14, 0)
    /\ <<127, 63>> \in before.gfx /\ <<0, 0>> \in before.gfx
    /\ before.draw = FALSE
    /\ gfx = {} /\ draw /\ pc = 522

\* -------------------------------------------------------------------- C9
\* C9: `calls` holds, for every call still open, the address a and the stack pointer s
\* (< 16) at which its 2nnn executed, innermost last.  Every 00EE that executes
\* closes the innermost open call and leaves pc = a + 2 and sp = s for it; so calls
\* nested up to the 16 slots return last-in-first-out.
C9_CallReturnRoundTrip ==
    [][(call' = "execute_cycle" /\ fault'.kind = "none" /\ IsReturn(opcode')) =>
          /\ Len(calls) > 0
          /\ calls[Len(calls)][2] < STACK_SIZE
          /\ pc' = calls[Len(calls)][1] + 2
          /\ sp' = calls[Len(calls)][2]
          /\ calls' = SubSeq(calls, 1, Len(calls) - 1)]_vars

\* the return of the sixteenth nested call, made at 0x208 with sp = 15
C9_Witness ==
    /\ call = "execute_cycle" /\ fault.kind = "none" /\ IsReturn(opcode)
    /\ before.sp = STACK_SIZE /\ sp = STACK_SIZE - 1
    /\ pc = 522
    /\ Len(calls) = STACK_SIZE - 1

\* ------------------------------------------------------------------- C10
\* the six skip instructions
IsSkip(w) ==
    \/ w \div 4096 \in {3, 4}
    \/ w \div 4096 \in {5, 9} /\ w % 16 = 0
    \/ w \div 4096 = 14 /\ w % 256 \in {158, 161}

\* the condition of the skip instruction w, in the state before it executes
SkipCondition(w) ==
    LET vx == v[OpX(w)]
        vy == v[OpY(w)]
        nn == w % 256
    IN  CASE w \div 4096 = 3 -> vx = nn
          [] w \div 4096 = 4 -> vx # nn
          [] w \div 4096 = 5 -> vx = vy
          [] w \div 4096 = 9 -> vx # vy
          [] w \div 4096 = 14 /\ w % 256 = 158 -> keys[vx]
          [] w \div 4096 = 14 /\ w % 256 = 161 -> ~keys[vx]

\* C10: each of 3xnn, 4xnn, 5xy0, 9xy0, Ex9E and ExA1 (Vx in 0..15 for the key forms)
\* advances pc by exactly 4 when its condition holds and by exactly 2 otherwise, and
\* changes no register, memory, stack, timer, display or key state.
C10_SkipsMovePcOnly ==
    [][(/\ call' = "execute_cycle"
        /\ pc + 1 < RAM_SIZE
        /\ IsSkip(WordAtPc)
        /\ (WordAtPc \div 4096 = 14 => v[OpX(WordAtPc)] < NUM_KEYS)) =>
          /\ fault'.kind = "none"
          /\ pc' = pc + (IF SkipCondition(WordAtPc) THEN 4 ELSE 2)
          /\ UNCHANGED <<v, ram_idx, ram, stack, sp, dt, st, gfx, draw, keys>>]_vars

\* ExA1 on key 15 while the host holds key 3 only: the key is not pressed, pc += 4
C10_Witness ==
    /\ call = "execute_cycle" /\ fault.kind = "none"
    /\ opcode = W(14, 7, 10, 1)
    /\ v[7] = 15 /\ keys[3] /\ ~keys[15]
    /\ before.pc = 516 /\ pc = 520

\* ------------------------------------------------------------ C11 .. C14
\* the step is a cycle that executed a Dxyn without a fault
DrawStep == call' = "execute_cycle" /\ fault'.kind = "none" /\ opcode' \div 4096 = 13

\* sprite row r of the draw w: the byte at I + r
SpriteRow(r) == ram[ram_idx + r + 1]

\* the pixel under column c of row r of the draw w
SpriteCell(w, r, c) == << (v[OpX(w)] + c) % GFX_W, (v[OpY(w)] + r) % GFX_H >>

\* bit (7 - c) of row r
SpriteBit(r, c) == (SpriteRow(r) \div (2 ^ (7 - c))) % 2 = 1

SpriteCells(w) == { SpriteCell(w, r, c) : r \in 0..(OpN(w) - 1), c \in 0..7 }

\* C11: a Dxyn whose N rows lie in memory leaves, for every row r < N and column
\* c < 8, the pixel at ((Vx + c) mod 128, (Vy + r) mod 64) equal to its old value XOR
\* bit (7 - c) of memory[I + r]; every other pixel, memory, I and the registers
\* other than VF are unchanged, and pc advances by 2.
C11_DrawXorsSprite ==
    [][DrawStep =>
          /\ \A r \in 0..(OpN(opcode') - 1) : \A c \in 0..7 :
                (SpriteCell(opcode', r, c) \in gfx') =
                    ((SpriteCell(opcode', r, c) \in gfx) # SpriteBit(r, c))
          /\ \A p \in (gfx \cup gfx') \ SpriteCells(opcode') : p \in gfx /\ p \in gfx'
          /\ \A i \in 0..14 : v'[i] = v[i]
          /\ UNCHANGED <<ram, ram_idx>>
          /\ pc' = pc + 2]_vars

\* glyph 0 over glyph F at (127, 63): both axes wrap, and the two glyphs differ in
\* the pixel (2, 0) of their second row and agree in (127, 63)
C11_Witness ==
    /\ call = "execute_cycle" /\ fault.kind = "none" /\ opcode = W(13, 0, 1, 5)
    /\ v[0] = 255 /\ v[1] = 255 /\ ram_idx = 0
    /\ <<127, 63>> \in before.gfx /\ <<127, 63>> \notin gfx
    /\ <<2, 0>> \notin before.gfx /\ <<2, 0>> \in gfx

\* C12: after a Dxyn, VF is 1 exactly when at least one pixel that was set before the
\* instruction is unset after it, and 0 otherwise, whatever VF held before.
C12_CollisionFlag ==
    [][DrawStep => v'[15] = (IF \E p \in gfx : p \notin gfx' THEN 1 ELSE 0)]_vars

\* a draw that turns some pixels off and others on, entered with VF = 0
C12_Witness ==
    /\ call = "execute_cycle" /\ fault.kind = "none" /\ opcode \div 4096 = 13
    /\ before.v[15] = 0 /\ v[15] = 1
    /\ \E p \in before.gfx : p \notin gfx
    /\ \E p \in gfx : p \notin before.gfx

\* C13: a Dxyn raises the draw flag exactly when at least one pixel goes from unset
\* to set; a draw that only turns pixels off, or changes none, leaves the flag as it
\* was.
C13_DrawFlagOnLitOnly ==
    [][DrawStep => draw' = (draw \/ \E p \in gfx' : p \notin gfx)]_vars

\* a purely erasing draw on a machine with draw = false ends with draw = false, VF = 1
C13_Witness ==
    /\ call = "execute_cycle" /\ fault.kind = "none" /\ opcode \div 4096 = 13
    /\ before.draw = FALSE /\ draw = FALSE
    /\ before.gfx # {} /\ gfx = {}
    /\ v[15] = 1

\* the step is the second of two cycles in a row that executed the same Dxyn with
\* the same I, Vx and Vy; `before` is then the state ahead of the first of them
SecondDraw ==
    /\ DrawStep
    /\ call = "execute_cycle" /\ fault.kind = "none" /\ opcode = opcode'
    /\ before.ram_idx = ram_idx
    /\ before.v[OpX(opcode)] = v[OpX(opcode)]
    /\ before.v[OpY(opcode)] = v[OpY(opcode)]

\* C14 as stated: the second of two identical draws in a row returns the display to
\* its state before the first and leaves VF = 1.
C14_AsStated ==
    [][SecondDraw => gfx' = before.gfx /\ v'[15] = 1]_vars

\* C14: the second of two identical draws in a row returns the display to its state
\* before the first; VF is 1 after it exactly when the first draw turned at least
\* one pixel on, and 0 otherwise (no rows, rows of zero bits, or every set bit of
\* the sprite on a pixel that was lit).
C14_DoubleDrawRestores ==
    [][SecondDraw =>
          /\ gfx' = before.gfx
          /\ v'[15] = (IF \E p \in gfx : p \notin before.gfx THEN 1 ELSE 0)]_vars

\* the third of three identical 5-row draws: the second erased the sprite with
\* VF = 1, the third lights it again, as before the second, with VF = 0
C14_Witness ==
    /\ call = "execute_cycle" /\ fault.kind = "none"
    /\ opcode = W(13, 0, 1, 5) /\ before.opcode = opcode
    /\ before.gfx = {} /\ before.v[15] = 1
    /\ gfx # {} /\ v[15] = 0
    /\ pc = 524

\* ------------------------------------------------------------------- C15
\* the documented glyphs: for each hex digit its five rows, four columns each
DocumentedGlyph ==
    << << <<1, 1, 1, 1>>, <<1, 0, 0, 1>>, <<1, 0, 0, 1>>, <<1, 0, 0, 1>>, <<1, 1, 1, 1>> >>,   \* 0
       << <<0, 0, 1, 0>>, <<0, 1, 1, 0>>, <<0, 0, 1, 0>>, <<0, 0, 1, 0>>, <<0, 1, 1, 1>> >>,   \* 1
       << <<1, 1, 1, 1>>, <<0, 0, 0, 1>>, <<1, 1, 1, 1>>, <<1, 0, 0, 0>>, <<1, 1, 1, 1>> >>,   \* 2
       << <<1, 1, 1, 1>>, <<0, 0, 0, 1>>, <<1, 1, 1, 1>>, <<0, 0, 0, 1>>, <<1, 1, 1, 1>> >>,   \* 3
       << <<1, 0, 0, 1>>, <<1, 0, 0, 1>>, <<1, 1, 1, 1>>, <<0, 0, 0, 1>>, <<0, 0, 0, 1>> >>,   \* 4
       << <<1, 1, 1, 1>>, <<1, 0, 0, 0>>, <<1, 1, 1, 1>>, <<0, 0, 0, 1>>, <<1, 1, 1, 1>> >>,   \* 5
       << <<1, 1, 1, 1>>, <<1, 0, 0, 0>>, <<1, 1, 1, 1>>, <<1, 0, 0, 1>>, <<1, 1, 1, 1>> >>,   \* 6
       << <<1, 1, 1, 1>>, <<0, 0, 0, 1>>, <<0, 0, 1, 0>>, <<0, 1, 0, 0>>, <<0, 1, 0, 0>> >>,   \* 7
       << <<1, 1, 1, 1>>, <<1, 0, 0, 1>>, <<1, 1, 1, 1>>, <<1, 0, 0, 1>>, <<1, 1, 1, 1>> >>,   \* 8
       << <<1, 1, 1, 1>>, <<1, 0, 0, 1>>, <<1, 1, 1, 1>>, <<0, 0, 0, 1>>, <<1, 1, 1, 1>> >>,   \* 9
       << <<1, 1, 1, 1>>, <<1, 0, 0, 1>>, <<1, 1, 1, 1>>, <<1, 0, 0, 1>>, <<1, 0, 0, 1>> >>,   \* A
       << <<1, 1, 1, 0>>, <<1, 0, 0, 1>>, <<1, 1, 1, 0>>, <<1, 0, 0, 1>>, <<1, 1, 1, 0>> >>,   \* B
       << <<1, 1, 1, 1>>, <<1, 0, 0, 0>>, <<1, 0, 0, 0>>, <<1, 0, 0, 0>>, <<1, 1, 1, 1>> >>,   \* C
       << <<1, 1, 1, 0>>, <<1, 0, 0, 1>>, <<1, 0, 0, 1>>, <<1, 0, 0, 1>>, <<1, 1, 1, 0>> >>,   \* D
       << <<1, 1, 1, 1>>, <<1, 0, 0, 0>>, <<1, 1, 1, 1>>, <<1, 0, 0, 0>>, <<1, 1, 1, 1>> >>,   \* E
       << <<1, 1, 1, 1>>, <<1, 0, 0, 0>>, <<1, 1, 1, 1>>, <<1, 0, 0, 0>>, <<1, 0, 0, 0>> >> >>   \* F

\* the pixels the documented glyph of d lights when drawn at (0, 0)
GlyphPixels(d) ==
    { p \in (0..7) \X (0..4) : p[1] <= 3 /\ DocumentedGlyph[d + 1][p[2] + 1][p[1] + 1] = 1 }

\* C15: for every hex digit d, on a blank display with I = 5 * d as Fx29 set it from
\* Vx = d, a Dxy5 at (0, 0) lights exactly the documented glyph of d in columns 0..3
\* of rows 0..4 and nothing in columns 4..7, sets the draw flag and leaves VF = 0.
C15_FontGlyphs ==
    (/\ call = "execute_cycle" /\ fault.kind = "none"
     /\ opcode \div 4096 = 13 /\ opcode % 16 = 5
     /\ before.opcode \div 4096 = 15 /\ before.opcode % 256 = 41
     /\ before.v[OpX(before.opcode)] <= 15
     /\ before.v[OpX(opcode)] = 0 /\ before.v[OpY(opcode)] = 0
     /\ before.gfx = {}) =>
        /\ before.ram_idx = 5 * before.v[OpX(before.opcode)]
        /\ gfx = GlyphPixels(before.v[OpX(before.opcode)])
        /\ draw = TRUE
        /\ v[15] = 0

\* the glyph of B: rows 1110, 1001, 1110, 1001, 1110
C15_Witness ==
    /\ call = "execute_cycle" /\ fault.kind = "none" /\ opcode = W(13, 1, 1, 5)
    /\ before.opcode = W(15, 2, 2, 9) /\ v[2] = 11 /\ ram_idx = 55
    /\ before.gfx = {} /\ before.draw = FALSE
    /\ gfx = { <<0, 0>>, <<1, 0>>, <<2, 0>>, <<0, 1>>, <<3, 1>>, <<0, 2>>, <<1, 2>>, <<2, 2>>,
               <<0, 3>>, <<3, 3>>, <<0, 4>>, <<1, 4>>, <<2, 4>> }
    /\ draw /\ v[15] = 0

\* ------------------------------------------------------------------- C16
\* C16: for every byte b in Vx and every I <= 0xFFD, Fx33 writes memory[I] = b div 100,
\* memory[I + 1] = (b div 10) mod 10 and memory[I + 2] = b mod 10, leaves Vx, I and
\* every other memory byte unchanged, and advances pc by 2.
C16_BcdDigits ==
    [][(/\ call' = "execute_cycle"
        /\ pc + 1 < RAM_SIZE
        /\ WordAtPc \div 4096 = 15 /\ WordAtPc % 256 = 51
        /\ ram_idx <= 4093) =>
          LET b == v[OpX(WordAtPc)]
          IN  /\ fault'.kind = "none"
              /\ ram'[ram_idx + 1] = b \div 100
              /\ ram'[ram_idx + 2] = (b \div 10) % 10
              /\ ram'[ram_idx + 3] = b % 10
              /\ SubSeq(ram', 1, ram_idx) = SubSeq(ram, 1, ram_idx)
              /\ SubSeq(ram', ram_idx + 4, RAM_SIZE) = SubSeq(ram, ram_idx + 4, RAM_SIZE)
              /\ UNCHANGED <<v, ram_idx>>
              /\ pc' = pc + 2]_vars

\* 123 at the last three bytes of memory gives 1, 2, 3
C16_Witness ==
    /\ call = "execute_cycle" /\ fault.kind = "none" /\ opcode = W(15, 0, 3, 3)
    /\ v[0] = 123 /\ ram_idx = 4093
    /\ ram[4094] = 1 /\ ram[4095] = 2 /\ ram[4096] = 3
    /\ pc = 518

\* ------------------------------------------------------------------- C17
\* register files the program may have left between a store and a load
Clobbered ==
    { [i \in 0..15 |-> 0], [i \in 0..15 |-> 255], [i \in 0..15 |-> (v[i] + 1) % 256],
      [i \in 0..15 |-> v[15 - i]] }

\* C17: for every X and I with I + X <= 0xFFF, Fx55 copies V0..VX to memory[I..I+X]
\* and changes no other byte, no register and not I; Fx65 copies memory[I..I+X] to
\* V0..VX and changes no register above X, no memory and not I; and in the state an
\* Fx55 leaves, whatever the registers are changed to, Fx65 with the same X and I
\* gives V0..VX the stored values again.
C17_BlockStoreLoad ==
    [][/\ (/\ call' = "execute_cycle" /\ pc + 1 < RAM_SIZE
           /\ WordAtPc \div 4096 = 15 /\ WordAtPc % 256 = 85
           /\ ram_idx + OpX(WordAtPc) <= 4095) =>
             /\ fault'.kind = "none"
             /\ \A i \in 0..OpX(WordAtPc) : ram'[ram_idx + i + 1] = v[i]
             /\ SubSeq(ram', 1, ram_idx) = SubSeq(ram, 1, ram_idx)
             /\ SubSeq(ram', ram_idx + OpX(WordAtPc) + 2, RAM_SIZE)
                   = SubSeq(ram, ram_idx + OpX(WordAtPc) + 2, RAM_SIZE)
             /\ UNCHANGED <<v, ram_idx>>
             /\ pc' = pc + 2
       /\ (/\ call' = "execute_cycle" /\ pc + 1 < RAM_SIZE
           /\ WordAtPc \div 4096 = 15 /\ WordAtPc % 256 = 101
           /\ ram_idx + OpX(WordAtPc) <= 4095) =>
             /\ fault'.kind = "none"
             /\ \A i \in 0..OpX(WordAtPc) : v'[i] = ram[ram_idx + i + 1]
             /\ \A i \in (OpX(WordAtPc) + 1)..15 : v'[i] = v[i]
             /\ UNCHANGED <<ram, ram_idx>>
             /\ pc' = pc + 2
       /\ (/\ call = "execute_cycle" /\ fault.kind = "none"
           /\ opcode \div 4096 = 15 /\ opcode % 256 = 85) =>
             \A c \in Clobbered :
                LET e == execute_opcode_fx65([Self EXCEPT !.v = c, !.opcode = opcode + 16])
                IN  /\ e.fault.kind = "none"
                    /\ \A i \in 0..OpX(opcode) : e.v[i] = v[i]
                    /\ \A i \in (OpX(opcode) + 1)..15 : e.v[i] = c[i]
                    /\ e.ram_idx = ram_idx /\ ram_idx = before.ram_idx]_vars

\* F365 at the end of memory brings back V0..V3 = 00, 11, 22, 33 after V0 and V3 were
\* overwritten, and leaves the overwritten VF alone
C17_Witness ==
    /\ call = "execute_cycle" /\ fault.kind = "none" /\ opcode = W(15, 3, 6, 5)
    /\ before.v[0] = 255 /\ before.v[3] = 1
    /\ v[0] = 0 /\ v[1] = 17 /\ v[2] = 34 /\ v[3] = 51 /\ v[4] = 68 /\ v[15] = 85
    /\ ram_idx = 4092 /\ ram[4096] = 51

\* ------------------------------------------------------------------- C18
\* C18: update_timers takes exactly 1 from the delay timer if it is nonzero and,
\* independently, exactly 1 from the sound timer if it is nonzero, and a timer at 0
\* stays at 0; in every state beeping() is true exactly when the sound timer is
\* nonzero, and a call of beeping() changes no state.
C18_TimersAndBeep ==
    [][/\ call' = "update_timers" =>
             /\ dt' = (IF dt # 0 THEN dt - 1 ELSE 0)
             /\ st' = (IF st # 0 THEN st - 1 ELSE 0)
       /\ beeping(Self) = (st # 0)
       /\ call' = "beeping" => UNCHANGED mvars]_vars

\* a tick that takes the delay timer from 1 to 0 while the sound timer rests at 0
C18_Witness ==
    /\ call = "update_timers"
    /\ before.dt = 1 /\ dt = 0
    /\ before.st = 0 /\ st = 0
    /\ ~beeping(Self)
    /\ pc = 520

\* ------------------------------------------------------------------- C19
\* the keys held down
Pressed == { k \in 0..15 : keys[k] }

\* the lowest of a nonempty set of key indices
Lowest(ks) == CHOOSE k \in ks : \A j \in ks : k <= j

\* C19: Fx0A with no key pressed leaves pc unchanged; with at least one key pressed,
\* whichever keys they are, it advances pc by exactly 2 and stores in Vx the lowest
\* index among the pressed keys.
C19_WaitTakesLowestKey ==
    [][(/\ call' = "execute_cycle" /\ pc + 1 < RAM_SIZE
        /\ WordAtPc \div 4096 = 15 /\ WordAtPc % 256 = 10) =>
          IF Pressed = {}
          THEN pc' = pc
          ELSE pc' = pc + 2 /\ v'[OpX(WordAtPc)] = Lowest(Pressed)]_vars

\* ------------------------------------------------------------------- C20
\* the machine that has fetched the word at pc
Fetched == fetch_opcode(Self)

\* C20: wherever the interpreter is about to dispatch 8xy6 or 8xyE, the host's
\* settings can make the cycle end as the original handler leaves the machine (Vx
\* receives Vy shifted, flag from Vy) and can make it end as the revised handler
\* leaves it (Vx shifted in place): both are among the outcomes of the cycle.
C20_BothShiftsSelectable ==
    (fault.kind = "none" /\ pc + 1 < RAM_SIZE /\ WordAtPc \div 4096 = 8) =>
        /\ WordAtPc % 16 = 6 =>
              /\ execute_opcode_8xy6_orig_not_used(Fetched) \in execute_cycle(Self, 0)
              /\ execute_opcode_8xy6(Fetched) \in execute_cycle(Self, 0)
        /\ WordAtPc % 16 = 14 =>
              /\ execute_opcode_8xye_orig_not_used(Fetched) \in execute_cycle(Self, 0)
              /\ execute_opcode_8xye(Fetched) \in execute_cycle(Self, 0)

\* ------------------------------------------------------------------- C21
\* C21: for every I <= 0xFFF and byte vx with x # 0xF, Fx1E sets VF to 1 exactly when
\* I + vx > 0xFFF and to 0 otherwise, sets I to (I + vx) mod 0x1000 in both cases,
\* leaves Vx unchanged and advances pc by 2.
C21_IndexAddFlag ==
    [][(/\ call' = "execute_cycle" /\ pc + 1 < RAM_SIZE
        /\ WordAtPc \div 4096 = 15 /\ WordAtPc % 256 = 30
        /\ OpX(WordAtPc) # 15 /\ ram_idx <= 4095) =>
          LET sum == ram_idx + v[OpX(WordAtPc)]
          IN  /\ fault'.kind = "none"
              /\ v'[15] = (IF sum > 4095 THEN 1 ELSE 0)
              /\ ram_idx' = sum % 4096
              /\ v'[OpX(WordAtPc)] = v[OpX(WordAtPc)]
              /\ pc' = pc + 2]_vars

\* 0xF02 + 0xFE = 0x1000: VF = 1 and I = 0
C21_Witness ==
    /\ call = "execute_cycle" /\ fault.kind = "none" /\ opcode = W(15, 7, 1, 14)
    /\ before.ram_idx = 3842 /\ v[7] = 254 /\ before.v[15] = 7
    /\ ram_idx = 0 /\ v[15] = 1 /\ pc = 520

\* ------------------------------------------------------------------- C22
\* C22: in every state reached from Emu::new() by load_rom, execute_cycle,
\* update_timers and reset, memory bytes 0x000..0x04F equal the font table: no
\* instruction, Fx33 and Fx55 with I below 0x50 included, overwrites them.
C22_FontNeverOverwritten == SubSeq(ram, 1, Len(FONT_MAP)) = FONT_MAP

\* ------------------------------------------------------------------- C23
\* what calls and returns do at the ends of the stack, and what they leave alone:
\* a 2nnn with sp = 16 faults with the machine as it was, a 00EE with sp = 0 faults
\* with the stack array and pc as they were, and no call or return changes
\* registers, I, memory, timers, display or keys
StackEnds ==
    (call' = "execute_cycle" /\ pc + 1 < RAM_SIZE) =>
        /\ (IsCall(WordAtPc) /\ sp = STACK_SIZE) =>
              /\ fault'.kind = "index_out_of_bounds"
              /\ UNCHANGED <<stack, sp, pc>>
        /\ (IsReturn(WordAtPc) /\ sp = 0) =>
              /\ fault'.kind \in {"subtract_with_overflow", "index_out_of_bounds"}
              /\ UNCHANGED <<stack, pc>>
        /\ (IsCall(WordAtPc) \/ IsReturn(WordAtPc)) =>
              UNCHANGED <<v, ram_idx, ram, dt, st, gfx, draw, keys>>

\* C23 as stated: in every reachable state 0 <= sp <= 16; a call with sp = 16 and a
\* return with sp = 0 end in a fault instead of an access outside the 16 slots, and
\* pushing and popping change no state other than the stack array and sp.
C23_AsStated ==
    [][/\ sp \in 0..STACK_SIZE
       /\ sp' \in 0..STACK_SIZE
       /\ StackEnds]_vars

\* C23: in every reachable state of a machine that has not faulted 0 <= sp <= 16; a
\* call with sp = 16 and a return with sp = 0 end in a fault instead of an access
\* outside the 16 slots, and pushing and popping change no state other than the
\* stack array and sp.  (The machine a faulted return leaves behind has sp = 0 when
\* the build checks arithmetic overflow and sp wrapped below zero when it does not.)
C23_StackBounds ==
    [][/\ fault.kind = "none" => sp \in 0..STACK_SIZE
       /\ fault'.kind = "none" => sp' \in 0..STACK_SIZE
       /\ StackEnds]_vars

\* the seventeenth nested call: a fault, with sixteen return addresses on the stack
C23_Witness ==
    /\ call = "execute_cycle"
    /\ fault = [kind |-> "index_out_of_bounds", arg |-> STACK_SIZE]
    /\ opcode = W(2, 2, 0, 4)
    /\ sp = STACK_SIZE /\ stack[STACK_SIZE - 1] = 520 /\ pc = 520

\* ------------------------------------------------------------------- C24
\* the fault of the first access past the last byte of memory
PastMemory == [kind |-> "index_out_of_bounds", arg |-> RAM_SIZE]

\* C24: when the address of a row read by Dxyn (I + r), of a digit written by Fx33
\* (I..I+2) or of a byte moved by Fx55 or Fx65 (I..I+X) exceeds 0xFFF, the cycle ends
\* in an access fault at address 0x1000; the access is not wrapped to low memory or
\* truncated to 12 bits: no byte below I is written, no register from index
\* 0x1000 - I on is loaded, and no pixel is drawn for a row from 0x1000 - I on.
C24_AccessFaultPastMemory ==
    [][(call' = "execute_cycle" /\ pc + 1 < RAM_SIZE) =>
          /\ (WordAtPc \div 4096 = 13 /\ ram_idx + OpN(WordAtPc) > RAM_SIZE) =>
                /\ fault' = PastMemory
                /\ UNCHANGED ram
                /\ \A p \in gfx' \ gfx :
                      (p[2] + GFX_H - (v[OpY(WordAtPc)] % GFX_H)) % GFX_H < RAM_SIZE - ram_idx
          /\ (WordAtPc \div 4096 = 15 /\ WordAtPc % 256 = 51 /\ ram_idx + 2 >= RAM_SIZE) =>
                /\ fault' = PastMemory
                /\ SubSeq(ram', 1, ram_idx) = SubSeq(ram, 1, ram_idx)
          /\ (WordAtPc \div 4096 = 15 /\ WordAtPc % 256 = 85
                /\ ram_idx + OpX(WordAtPc) >= RAM_SIZE) =>
                /\ fault' = PastMemory
                /\ SubSeq(ram', 1, ram_idx) = SubSeq(ram, 1, ram_idx)
          /\ (WordAtPc \div 4096 = 15 /\ WordAtPc % 256 = 101
                /\ ram_idx + OpX(WordAtPc) >= RAM_SIZE) =>
                /\ fault' = PastMemory
                /\ UNCHANGED ram
                /\ \A i \in (RAM_SIZE - ram_idx)..15 : v'[i] = v[i]]_vars

\* FF55 with I = 0xFFF: V0 is stored in the last byte, the store of V1 faults, and
\* address 0 still holds the first font byte
C24_Witness ==
    /\ call = "execute_cycle" /\ fault = PastMemory
    /\ opcode = W(15, 15, 5, 5) /\ ram_idx = 4095
    /\ ram[4096] = 129 /\ ram[1] = 240
    /\ pc = 520

\* ------------------------------------------------------------------- C25
\* the documented encodings: 00E0, 00EE, 1nnn, 2nnn, 3xnn, 4xnn, 5xy0, 6xnn, 7xnn,
\* 8xy0..8xy7, 8xyE, 9xy0, Annn, Bnnn, Cxnn, Dxyn, Ex9E, ExA1 and
\* Fx07/0A/15/18/1E/29/33/55/65
Documented(w) ==
    \/ w \in {224, 238}
    \/ w \div 4096 \in {1, 2, 3, 4, 6, 7, 10, 11, 12, 13}
    \/ w \div 4096 \in {5, 9} /\ w % 16 = 0
    \/ w \div 4096 = 8 /\ w % 16 \in (0..7) \cup {14}
    \/ w \div 4096 = 14 /\ w % 256 \in {158, 161}
    \/ w \div 4096 = 15 /\ w % 256 \in {7, 10, 21, 24, 30, 41, 51, 85, 101}

\* C25: the dispatcher executes exactly the documented encodings: a cycle on any
\* other word (0x01E0, 0x9AB1, 0xE00E, 0xE2F1, ...) ends as an unknown instruction.
C25_OnlyDocumentedExecute ==
    [][(call' = "execute_cycle" /\ pc + 1 < RAM_SIZE /\ ~Documented(WordAtPc)) =>
          fault'.kind = "unknown_opcode"]_vars

\* ------------------------------------------------------------------- C26
\* C26: 2nnn executed at pc = a with sp = s < 16 stores a itself in stack[s], sets sp
\* to s + 1 and pc to nnn, and leaves every other stack slot, all registers, memory
\* and timers unchanged; 1nnn sets pc to nnn and changes neither the stack nor sp.
C26_CallAndJump ==
    [][(call' = "execute_cycle" /\ pc + 1 < RAM_SIZE) =>
          /\ (IsCall(WordAtPc) /\ sp < STACK_SIZE) =>
                /\ fault'.kind = "none"
                /\ stack'[sp] = pc
                /\ \A i \in 0..(STACK_SIZE - 1) : i # sp => stack'[i] = stack[i]
                /\ sp' = sp + 1
                /\ pc' = WordAtPc % 4096
                /\ UNCHANGED <<v, ram_idx, ram, dt, st>>
          /\ WordAtPc \div 4096 = 1 =>
                /\ fault'.kind = "none"
                /\ pc' = WordAtPc % 4096
                /\ UNCHANGED <<stack, sp>>]_vars

\* the fourth nested call, made at 0x208 with sp = 3
C26_Witness ==
    /\ call = "execute_cycle" /\ fault.kind = "none" /\ opcode = W(2, 2, 0, 4)
    /\ before.pc = 520 /\ before.sp = 3
    /\ stack[3] = 520 /\ stack[0] = 512 /\ sp = 4 /\ pc = 516

\* ------------------------------------------------------------------- C27
\* what 8xy6 leaves in Vx, VF and pc, for x # 0xF
ShiftRightResults ==
    (Executed8(6) /\ OpX(opcode) # 15) =>
        /\ v[OpX(opcode)] = before.v[OpX(opcode)] \div 2
        /\ v[15] = before.v[OpX(opcode)] % 2
        /\ pc = before.pc + 2

\* C27 as stated: for x # 0xF and any y, 8xy6 sets Vx to vx div 2 and VF to the least
\* significant bit of vx before the shift, advances pc by 2, and leaves Vy unchanged
\* whenever y # x.
C27_AsStated ==
    /\ ShiftRightResults
    /\ (Executed8(6) /\ OpX(opcode) # 15 /\ OpY(opcode) # OpX(opcode)) =>
          v[OpY(opcode)] = before.v[OpY(opcode)]

\* C27: for x # 0xF and any y, 8xy6 sets Vx to vx div 2 and VF to the least
\* significant bit of vx before the shift, advances pc by 2, never reads Vy, and
\* leaves Vy unchanged whenever y # x and y # 0xF; with y = 0xF the register Vy is VF
\* and holds the flag afterwards.
C27_ShiftRightInPlace ==
    /\ ShiftRightResults
    /\ (Executed8(6) /\ OpX(opcode) # 15 /\ OpY(opcode) # OpX(opcode)) =>
          IF OpY(opcode) = 15
          THEN v[15] = before.v[OpX(opcode)] % 2
          ELSE v[OpY(opcode)] = before.v[OpY(opcode)]

\* 80F6 with V0 = 2 and VF = 255: V0 = 1, and VF = 0 replaces the 255
C27_Witness ==
    /\ Executed8(6)
    /\ opcode = W(8, 0, 15, 6)
    /\ before.v[0] = 2 /\ before.v[15] = 255
    /\ v[0] = 1 /\ v[15] = 0 /\ pc = 518

\* ------------------------------------------------------------------- C28
\* C28: for x # 0xF and any y, 8xyE sets Vx to (2 * vx) mod 256 and VF to the bit
\* shifted out, the most significant bit of vx before the shift (VF = 1 exactly when
\* vx >= 0x80), and advances pc by 2.
C28_ShiftLeftFlagIsTopBit ==
    (Executed8(14) /\ OpX(opcode) # 15) =>
        /\ v[OpX(opcode)] = (2 * before.v[OpX(opcode)]) % 256
        /\ v[15] = (IF before.v[OpX(opcode)] >= 128 THEN 1 ELSE 0)
        /\ pc = before.pc + 2

\* ------------------------------------------------------------------- C29
\* C29: for every byte vx, immediate nn and register x # 0xF, 7xnn sets Vx to
\* (vx + nn) mod 256 and leaves VF and every other register unchanged, also when the
\* sum wraps; pc advances by 2.
C29_AddImmediateNoFlag ==
    (/\ call = "execute_cycle" /\ fault.kind = "none"
     /\ opcode \div 4096 = 7 /\ OpX(opcode) # 15) =>
        /\ v[OpX(opcode)] = (before.v[OpX(opcode)] + (opcode % 256)) % 256
        /\ \A i \in 0..15 : i # OpX(opcode) => v[i] = before.v[i]
        /\ pc = before.pc + 2

\* 0xFF + 0x01 wraps to 0 and VF keeps its 0
C29_Witness ==
    /\ call = "execute_cycle" /\ fault.kind = "none" /\ opcode = W(7, 7, 0, 1)
    /\ before.v[7] = 255 /\ before.v[15] = 0
    /\ v[7] = 0 /\ v[15] = 0 /\ pc = 518

\* ------------------------------------------------------------------- C30
\* C30: Bnnn sets pc to nnn + V0 as an unmasked sum, for every nnn and V0, so pc may
\* exceed 0xFFF (up to 0x10FE); no register, stack or memory state changes.
C30_OffsetJumpUnmasked ==
    [][(call' = "execute_cycle" /\ pc + 1 < RAM_SIZE /\ WordAtPc \div 4096 = 11) =>
          /\ fault'.kind = "none"
          /\ pc' = (WordAtPc % 4096) + v[0]
          /\ UNCHANGED <<v, ram_idx, stack, sp, ram>>]_vars

\* BFFF with V0 = 0xFF: pc = 0x10FE
C30_Witness ==
    /\ call = "execute_cycle" /\ fault.kind = "none" /\ opcode = W(11, 15, 15, 15)
    /\ v[0] = 255 /\ before.pc = 514
    /\ pc = 4350

\* ------------------------------------------------------------------- C31
\* C31: for every immediate nn and every random byte r, Cxnn leaves Vx = r AND nn: no
\* bit outside nn is set in Vx, every value r AND nn is an outcome of the cycle, pc
\* advances by 2 and nothing else changes.
C31_RandomMasked ==
    /\ [][(call' = "execute_cycle" /\ pc + 1 < RAM_SIZE /\ WordAtPc \div 4096 = 12) =>
             LET x == (WordAtPc \div 256) % 16
                 nn == WordAtPc % 256
             IN  /\ fault'.kind = "none"
                 /\ \E r \in 0..255 : v' = [v EXCEPT ![x] = BitAnd(r, nn)]
                 /\ BitAnd(v'[x], 255 - nn) = 0
                 /\ pc' = pc + 2
                 /\ UNCHANGED <<ram_idx, ram, stack, sp, dt, st, gfx, draw, keys, rom>>]_vars
    /\ [](Running /\ pc + 1 < RAM_SIZE /\ WordAtPc \div 4096 = 12 =>
             \A r \in 0..255 :
                /\ r \in RandomBytes(Self)
                /\ \E e \in execute_cycle(Self, r) :
                      Ok(e) /\ e.v[(WordAtPc \div 256) % 16] = BitAnd(r, WordAtPc % 256))

\* C055 on V0 = 0xFF drew a byte with bits 0x44 of the mask 0x55 set
C31_Witness ==
    /\ call = "execute_cycle" /\ fault.kind = "none" /\ opcode = W(12, 0, 5, 5)
    /\ before.v[0] = 255
    /\ v[0] = 68 /\ pc = 516

\* ------------------------------------------------------------------- C32
\* C32: for every register x in 0..F and every byte vx in 0..255, Fx29 sets I to
\* 5 * vx, leaves Vx (and every other register) unchanged and advances pc by 2.
C32_GlyphAddress ==
    [][(/\ call' = "execute_cycle" /\ pc + 1 < RAM_SIZE
        /\ WordAtPc \div 4096 = 15 /\ WordAtPc % 256 = 41) =>
          /\ fault'.kind = "none"
          /\ ram_idx' = 5 * v[(WordAtPc \div 256) % 16]
          /\ pc' = pc + 2
          /\ UNCHANGED <<v, ram, stack, sp, dt, st, gfx, draw, keys>>]_vars

\* FF29 with VF = 0xFF: I = 1275 = 0x4FB
C32_Witness ==
    /\ call = "execute_cycle" /\ fault.kind = "none" /\ opcode = W(15, 15, 2, 9)
    /\ v[15] = 255 /\ before.ram_idx = 0
    /\ ram_idx = 1275 /\ pc = 516

\* ------------------------------------------------------------------- C33
\* C33: while pc points at an Fx0A and no key is pressed, a cycle leaves pc, registers,
\* index, memory, stack, timers, display and draw flag unchanged; the first cycle
\* executed with a key pressed ends the wait with pc at the instruction that follows
\* the Fx0A.
C33_WaitIsRecheckLoop ==
    [][(/\ call' = "execute_cycle" /\ pc + 1 < RAM_SIZE
        /\ WordAtPc \div 4096 = 15 /\ WordAtPc % 256 = 10) =>
          /\ fault'.kind = "none"
          /\ UNCHANGED <<ram_idx, ram, stack, sp, dt, st, gfx, draw>>
          /\ IF Pressed = {}
             THEN UNCHANGED <<pc, v>>
             ELSE pc' = pc + 2]_vars

\* ------------------------------------------------------------------- C34
\* C34: execute_cycle changes the delay timer only through Fx15 and the sound timer
\* only through Fx18, and update_timers changes nothing but the two timers; so after
\* Fx18 has set the sound timer to k, n update_timers calls interleaved in any way with
\* cycles that run no Fx18 leave the sound timer at max(0, k - n), and beeping() is
\* true exactly while n < k.
C34_TimersDecoupled ==
    /\ [][/\ call' = "execute_cycle" =>
                /\ dt' # dt => BitAnd(opcode', 61695) = 61461
                /\ st' # st => BitAnd(opcode', 61695) = 61464
          /\ call' = "update_timers" =>
                UNCHANGED <<gfx, keys, draw, opcode, ram, v, ram_idx, pc, stack, sp, rom,
                            fault>>]_vars
    /\ [](sound # << >> =>
            LET k == sound[1]
                n == sound[2]
            IN  IF n < MaxTicks
                THEN /\ st = (IF k > n THEN k - n ELSE 0)
                     /\ beeping(Self) = (n < k)
                ELSE st <= (IF k > MaxTicks THEN k - MaxTicks ELSE 0))

\* sound timer set to 3, then three ticks among six cycles that set the delay timer:
\* the beep has just ended
C34_Witness ==
    /\ call = "update_timers" /\ fault.kind = "none"
    /\ sound = <<3, 3>>
    /\ before.st = 1 /\ st = 0 /\ ~beeping(Self)
    /\ v[2] = 2 /\ pc = 522

\* ------------------------------------------------------------------- C35
\* C35: no execute_cycle, whatever the instruction (Ex9E, ExA1 and an Fx0A that takes
\* a key included), and no update_timers call changes any of the 16 key flags: a
\* pressed key stays pressed until the host clears it.
C35_KeypadReadOnly ==
    [][call' \in {"execute_cycle", "update_timers"} => keys' = keys]_vars

\* F10A has taken key 15, which is still pressed
C35_Witness ==
    /\ call = "execute_cycle" /\ fault.kind = "none" /\ opcode = W(15, 1, 0, 10)
    /\ before.v[1] = 3 /\ v[1] = 15 /\ pc = 518
    /\ before.keys[15] /\ keys[15] /\ ~keys[3]

\* ------------------------------------------------------------------- C36
\* C36: for every sequence of successful load_rom calls on one machine, with cycles
\* between them and later images shorter than earlier ones, the state right after a
\* reset equals the state right after the last load_rom in memory contents and
\* cached image.
C36_ResetRestoresLastLoad ==
    (call = "reset" /\ fault.kind = "none" /\ loads >= 1) =>
        /\ ram = loaded_ram
        /\ rom = loaded

\* ------------------------------------------------------------------- C37
\* C37: in every state reachable from Emu::new() by load_rom, execute_cycle,
\* update_timers and reset the index register is at most 0xFFF, so the sums I + Vx of
\* Fx1E and I + i (i up to 15) of Fx33, Fx55 and Fx65 stay below 2^16.
C37_IndexRange ==
    /\ ram_idx <= 4095
    /\ \A i \in 0..15 : ram_idx + v[i] < 65536 /\ ram_idx + i < 65536

\* F01E on I = 0xFFF with V0 = 0xFF: the sum 0x10FE is reduced to 0x0FE
C37_Witness ==
    /\ call = "execute_cycle" /\ fault.kind = "none" /\ opcode = W(15, 0, 1, 14)
    /\ before.ram_idx = 4095 /\ v[0] = 255
    /\ ram_idx = 254 /\ v[15] = 1

\* ------------------------------------------------------------------- C38
\* C38: once the draw flag is true it stays true across every execute_cycle and
\* update_timers call, whatever the instruction; only reset, or the host writing the
\* public field, sets it back to false.
C38_DrawFlagNeverCleared ==
    [][(draw /\ ~draw') => call' \in {"reset", "host_draw"}]_vars

\* the second draw of the glyph erased it and the flag, set before, is still set
C38_Witness ==
    /\ call = "execute_cycle" /\ fault.kind = "none" /\ opcode = W(13, 1, 1, 5)
    /\ before.opcode = W(13, 1, 1, 5)
    /\ before.draw /\ before.gfx # {} /\ gfx = {} /\ v[15] = 1
    /\ draw

\* ------------------------------------------------------------------- C39
\* the flag the instruction word w produces from the operands of the current state:
\* carry, no-borrow, the bit shifted out, or the index overflow
FlagOf(w) ==
    LET vx == v[(w \div 256) % 16]
        vy == v[(w \div 16) % 16]
    IN  CASE w \div 4096 = 8 /\ w % 16 = 4 -> IF vx + vy > 255 THEN 1 ELSE 0
          [] w \div 4096 = 8 /\ w % 16 = 5 -> IF vy > vx THEN 0 ELSE 1
          [] w \div 4096 = 8 /\ w % 16 = 7 -> IF vx > vy THEN 0 ELSE 1
          [] w \div 4096 = 8 /\ w % 16 = 6 -> vx % 2
          [] w \div 4096 = 8 /\ w % 16 = 14 -> vx \div 128
          [] OTHER -> IF ram_idx + vx > 4095 THEN 1 ELSE 0

\* the flag-writing instructions whose register x is VF
FlagDest(w) ==
    /\ (w \div 256) % 16 = 15
    /\ \/ w \div 4096 = 8 /\ w % 16 \in {4, 5, 6, 7, 14}
       \/ w \div 4096 = 15 /\ w % 256 = 30

\* C39: when x = 0xF in 8xy4, 8xy5, 8xy7, 8xy6, 8xyE or Fx1E the flag is written last:
\* afterwards VF holds the carry / no-borrow / shifted-out / overflow flag computed
\* from the operands the instruction found, not the arithmetic result.
C39_FlagWrittenLast ==
    [][(call' = "execute_cycle" /\ pc + 1 < RAM_SIZE /\ FlagDest(WordAtPc)) =>
          /\ fault'.kind = "none"
          /\ v'[15] = FlagOf(WordAtPc)]_vars

\* ------------------------------------------------------------------- C40
\* the step is a cycle on Dxyn, Fx33, Fx55 or Fx65 that ended in the fault of an
\* access past the last byte of memory
MemoryFaultStep ==
    /\ call' = "execute_cycle" /\ pc + 1 < RAM_SIZE
    /\ fault' = PastMemory
    /\ \/ WordAtPc \div 4096 = 13
       \/ WordAtPc \div 4096 = 15 /\ WordAtPc % 256 \in {51, 85, 101}

\* C40 as stated: when Fx33, Fx55, Fx65 or Dxyn faults because an address I + offset
\* exceeds 0xFFF, no memory byte, register or display pixel has been modified by the
\* instruction and pc has not advanced.
C40_AsStated ==
    [][MemoryFaultStep => UNCHANGED <<ram, v, gfx, pc>>]_vars

\* C40: when Fx33, Fx55, Fx65 or Dxyn faults because an address I + offset exceeds
\* 0xFFF, pc has not advanced and index, stack and timers are unchanged, but every
\* access below 0x1000 that precedes the faulting one has taken effect: Fx33 has
\* stored the digits that fit, Fx55 the registers V0..V(0xFFF - I), Fx65 has loaded
\* those registers, and Dxyn has zeroed VF and drawn the rows I..0xFFF with their
\* collision and draw flags.
C40_FaultKeepsEarlierEffects ==
    [][MemoryFaultStep =>
          LET w == WordAtPc
              room == RAM_SIZE - ram_idx
              b == v[OpX(w)]
              drawn == { SpriteCell(w, r, c) : r \in 0..(room - 1), c \in 0..7 }
          IN  /\ UNCHANGED <<pc, ram_idx, stack, sp, dt, st, keys>>
              /\ (w \div 4096 = 15 /\ w % 256 = 51) =>
                    /\ ram'[ram_idx + 1] = b \div 100
                    /\ room >= 2 => ram'[ram_idx + 2] = (b \div 10) % 10
                    /\ SubSeq(ram', 1, ram_idx) = SubSeq(ram, 1, ram_idx)
                    /\ UNCHANGED <<v, gfx, draw>>
              /\ (w \div 4096 = 15 /\ w % 256 = 85) =>
                    /\ \A i \in 0..(room - 1) : ram'[ram_idx + i + 1] = v[i]
                    /\ SubSeq(ram', 1, ram_idx) = SubSeq(ram, 1, ram_idx)
                    /\ UNCHANGED <<v, gfx, draw>>
              /\ (w \div 4096 = 15 /\ w % 256 = 101) =>
                    /\ \A i \in 0..15 :
                          v'[i] = (IF i < room THEN ram[ram_idx + i + 1] ELSE v[i])
                    /\ UNCHANGED <<ram, gfx, draw>>
              /\ (w \div 4096 = 13) =>
                    /\ \A r \in 0..(room - 1) : \A c \in 0..7 :
                          (SpriteCell(w, r, c) \in gfx') =
                              ((SpriteCell(w, r, c) \in gfx) # SpriteBit(r, c))
                    /\ \A p \in (gfx \cup gfx') \ drawn : p \in gfx /\ p \in gfx'
                    /\ \A i \in 0..14 : v'[i] = v[i]
                    /\ v'[15] = (IF \E p \in gfx : p \notin gfx' THEN 1 ELSE 0)
                    /\ draw' = (draw \/ \E p \in gfx' : p \notin gfx)
                    /\ UNCHANGED ram]_vars

\* F255 with I = 0xFFE: V0 and V1 are in the last two bytes of memory when the store
\* of V2 faults, and pc still points at the F255
C40_Witness ==
    /\ call = "execute_cycle" /\ fault = PastMemory
    /\ opcode = W(15, 2, 5, 5) /\ ram_idx = 4094
    /\ v[0] = 129 /\ v[1] = 255
    /\ ram[4095] = 129 /\ ram[4096] = 255
    /\ pc = before.pc /\ ram[pc + 1] = 242 /\ ram[pc + 2] = 85

====
